---- MODULE Spec2Model ----
(***************************************************************************)
(* Model of the project-management CLI's entity registries: the three      *)
(* class-level registries (User, Project, Task), their id counters, the    *)
(* relationship lists, the derived completion percentage and the JSON      *)
(* load/save of each registry.                                             *)
(*                                                                         *)
(* Representation.                                                         *)
(*  - A Python str is a sequence of one-character strings, so that len,    *)
(*    strip and the "in" test are computed and not assumed.                *)
(*  - A registry (a dict keyed by id, which iterates in insertion order)   *)
(*    is a sequence of entity records with pairwise distinct ids.          *)
(*  - A flat record of a JSON file is a TLA+ record whose DOMAIN holds the  *)
(*    keys that are present; a missing key is a key outside the DOMAIN.    *)
(*  - A datetime is a natural number (a point of time); a date string is a *)
(*    TLA+ string that parse and isoformat map to and from points of time. *)
(*  - An absent optional argument (Python's None) of an id or a timestamp  *)
(*    is 0, which is falsy as None is.                                     *)
(*  - float results are exact fractions <<numerator, denominator>>.        *)
(***************************************************************************)
EXTENDS Integers, Sequences, FiniteSets, TLC

VARIABLES
    users,          \* User._all_users
    userNextId,     \* User._next_id
    projects,       \* Project._all_projects
    projectNextId,  \* Project._next_id
    tasks,          \* Task._all_tasks
    taskNextId,     \* Task._next_id
    usersFile,      \* records of data/users.json
    projectsFile,   \* records of data/projects.json
    tasksFile,      \* records of data/tasks.json
    dataDir,        \* the data directory: present, absent, or blocked
    now,            \* datetime.now()
    kind,           \* the registry a persistence behaviour exercises
    pc,             \* the steps of the end-to-end scenario made so far
    last            \* the last call: its name, arguments and outcome

vars == <<users, userNextId, projects, projectNextId, tasks, taskNextId,
          usersFile, projectsFile, tasksFile, dataDir, now, kind, pc, last>>

userVars    == <<users, userNextId>>
projectVars == <<projects, projectNextId>>
taskVars    == <<tasks, taskNextId>>
fileVars    == <<usersFile, projectsFile, tasksFile, dataDir>>
envVars     == <<now, kind>>

(***************************************************************************)
(* Bounds.                                                                 *)
(***************************************************************************)
\* ids handed out by create in a behaviour of the three interleaved registries
MaxCreate == 2
\* largest id create hands out in a persistence behaviour
MaxId == 3
\* largest entity id in a relationship behaviour
MaxRel == 1
\* tasks created in a completion-percentage behaviour
MaxTasks == 2
\* entities of a kind in a setter behaviour
MaxSet == 2
\* entities of a kind in a lookup behaviour
MaxFind == 2

(***************************************************************************)
(* Strings.                                                                *)
(***************************************************************************)
StrA      == <<"A">>
StrAl     == <<"A", "l">>
StrAna    == <<"A", "n", "a">>
StrBo     == <<" ", "B", "o", " ">>
StrBad    == <<"b", "a", "d">>
StrMail   == <<"a", "@", "b", ".", "c">>
StrAnaMail == <<"a", "n", "a", "@", "x", ".", "c", "o", "m">>
StrLaunch == <<"L", "a", "u", "n", "c", "h">>
StrDoc    == <<"W", "r", "i", "t", "e", " ", "d", "o", "c">>
StrEmpty  == <<>>
StrBlank  == <<" ">>
StrPadA   == <<" ", "A", " ">>
StrNoDot  == <<"a", "@", "b">>
StrNoAt   == <<"a", ".", "b">>
StrPadMail == <<" ", "a", "@", "b", ".", "c">>
StrPadDoc == <<" ", "D", "o", "c", " ">>

\* c in s
Contains(s, c) == \E i \in 1..Len(s) : s[i] = c

RECURSIVE LStrip(_)
LStrip(s) == IF s # <<>> /\ Head(s) = " " THEN LStrip(Tail(s)) ELSE s

RECURSIVE RStrip(_)
RStrip(s) ==
    IF s # <<>> /\ s[Len(s)] = " " THEN RStrip(SubSeq(s, 1, Len(s) - 1)) ELSE s

\* s.strip()
Strip(s) == RStrip(LStrip(s))

\* c.lower() for one character
LowerChar(c) ==
    CASE c = "A" -> "a" [] c = "B" -> "b" [] c = "D" -> "d"
      [] c = "L" -> "l" [] c = "W" -> "w" [] OTHER -> c

\* s.lower()
Lower(s) == [i \in 1..Len(s) |-> LowerChar(s[i])]

\* a in b, for strings
IsSubstring(a, b) ==
    \E i \in 0..(Len(b) - Len(a)) : SubSeq(b, i + 1, i + Len(a)) = a

(***************************************************************************)
(* Dates: dateutil's parser.parse and datetime.isoformat.  The points of   *)
(* time are 1 (1 January 2020) and 9 (1 January 2099).                     *)
(***************************************************************************)
DateStrings ==
    {"2020-01-01", "2020-01-01T00:00:00", "2099-01-01", "2099-01-01T00:00:00"}

\* parser.parse(s): the datetime, or 0 when it raises
ParseDate(s) ==
    CASE s \in {"2020-01-01", "2020-01-01T00:00:00"} -> 1
      [] s \in {"2099-01-01", "2099-01-01T00:00:00", "Jan 1 2099"} -> 9
      [] OTHER -> 0

\* datetime.fromisoformat(s) succeeds: the ISO forms only
IsIsoFormat(s) == s \in DateStrings

\* d.isoformat()
IsoFormat(d) ==
    CASE d = 1 -> "2020-01-01T00:00:00"
      [] d = 9 -> "2099-01-01T00:00:00"
      [] OTHER -> "?"

(***************************************************************************)
(* dict and list helpers.                                                  *)
(***************************************************************************)
\* data.get(k, default)
Get(data, k, default) == IF k \in DOMAIN data THEN data[k] ELSE default

\* x in lst
InList(lst, x) == \E i \in 1..Len(lst) : lst[i] = x

\* lst.remove(x) for x in lst: the first occurrence goes
ListRemove(lst, x) ==
    LET i == CHOOSE j \in 1..Len(lst) :
                 lst[j] = x /\ \A k \in 1..(j - 1) : lst[k] # x
    IN  SubSeq(lst, 1, i - 1) \o SubSeq(lst, i + 1, Len(lst))

\* the position of key id in the registry, 0 when it is no key
IndexOf(reg, f, id) ==
    IF \E i \in 1..Len(reg) : reg[i][f] = id
    THEN CHOOSE i \in 1..Len(reg) : reg[i][f] = id
    ELSE 0

\* an assignment that moves a key that is present to the end
DictSetMoveToEnd(reg, f, ent) ==
    Append(SelectSeq(reg, LAMBDA e : e[f] # ent[f]), ent)

\* reg[ent[f]] = ent: a key that is present keeps its position
DictSet(reg, f, ent) ==
    LET i == IndexOf(reg, f, ent[f])
    IN  IF i = 0 THEN Append(reg, ent) ELSE [reg EXCEPT ![i] = ent]

\* reg.get(id): the entity in a one-element sequence, <<>> for None
DictGet(reg, f, id) ==
    LET i == IndexOf(reg, f, id)
    IN  IF i = 0 THEN <<>> ELSE <<reg[i]>>

Ids(reg, f) == {reg[i][f] : i \in 1..Len(reg)}

IdSeq(reg, f) == [i \in 1..Len(reg) |-> reg[i][f]]

\* the record of a call: its name, the exception it raised ("" for none), the
\* id it returned or was made on, the registry's ids before it, the call
\* before it, its text argument, its status argument, and a numeric result;
\* for the file handler and the CLI also the length of the data returned or
\* the number of save_data calls made (n), the message the command printed
\* (report), the message save_data printed (saved) and the file name given
Call(op, err) ==
    [op |-> op, err |-> err, id |-> 0, pre |-> <<>>, after |-> "",
     text |-> <<>>, status |-> "", val |-> <<>>, n |-> 0, report |-> "",
     saved |-> "", file |-> ""]

\* a lookup: it changes no registry, counter or file, and the caller gets
\* the ids of the entities found, or the exception
Lookup(op, id, text, status, ids, err) ==
    /\ last' = [Call(op, err) EXCEPT !.id = id, !.text = text,
                                     !.status = status, !.val = ids,
                                     !.after = last.op]
    /\ UNCHANGED <<userVars, projectVars, taskVars, fileVars, envVars>>

(***************************************************************************)
(* User.                                                                   *)
(***************************************************************************)
\* User.__init__ with a counter that _get_next_id reads and does not advance
UserNewNoAdvance(reg, next, name, email, user_id, created_at, projs) ==
    LET id  == IF user_id = 0 THEN next ELSE user_id
        ent == [user_id |-> id, name |-> name, email |-> email,
                created_at |-> IF created_at = 0 THEN now ELSE created_at,
                projects |-> projs]
    IN  [reg  |-> DictSet(reg, "user_id", ent),
         next |-> next,
         ent  |-> ent,
         err  |-> ""]

\* User.__init__: the registry, the counter and the new user
UserNew(reg, next, name, email, user_id, created_at, projs) ==
    LET id  == IF user_id = 0 THEN next ELSE user_id
        ent == [user_id |-> id, name |-> name, email |-> email,
                created_at |-> IF created_at = 0 THEN now ELSE created_at,
                projects |-> projs]
    IN  [reg  |-> DictSet(reg, "user_id", ent),
         next |-> IF user_id = 0 THEN next + 1 ELSE next,
         ent  |-> ent,
         err  |-> ""]

\* User.create(name, email)
UserCreate(name, email) ==
    LET r == UserNew(users, userNextId, name, email, 0, 0, <<>>)
    IN  /\ users' = r.reg
        /\ userNextId' = r.next
        /\ last' = [Call("User.create", r.err)
                    EXCEPT !.id = r.ent.user_id, !.text = name]
        /\ UNCHANGED <<projectVars, taskVars, fileVars, envVars>>

\* the name setter with the assignment made before the validation
UserSetNameAssignFirst(id, value) ==
    LET i == IndexOf(users, "user_id", id)
        bad == value = <<>> \/ Len(Strip(value)) < 2
    IN  /\ i # 0
        /\ users' = [users EXCEPT ![i].name = Strip(value)]
        /\ last' = Call("User.name", IF bad THEN "ValueError" ELSE "")
        /\ UNCHANGED <<userNextId, projectVars, taskVars, fileVars, envVars>>

\* the name setter on the user with this id
UserSetName(id, value) ==
    LET i == IndexOf(users, "user_id", id)
        bad == value = <<>> \/ Len(Strip(value)) < 2
    IN  /\ i # 0
        /\ users' = IF bad THEN users
                    ELSE [users EXCEPT ![i].name = Strip(value)]
        /\ last' = Call("User.name", IF bad THEN "ValueError" ELSE "")
        /\ UNCHANGED <<userNextId, projectVars, taskVars, fileVars, envVars>>

\* the email setter on the user with this id
UserSetEmail(id, value) ==
    LET i == IndexOf(users, "user_id", id)
        bad == ~ Contains(value, "@") \/ ~ Contains(value, ".")
    IN  /\ i # 0
        /\ users' = IF bad THEN users
                    ELSE [users EXCEPT ![i].email = Strip(value)]
        /\ last' = Call("User.email", IF bad THEN "ValueError" ELSE "")
        /\ UNCHANGED <<userNextId, projectVars, taskVars, fileVars, envVars>>

\* User.get_all()
UserGetAll(reg) == reg

\* User.find_by_id(user_id): the user in a one-element sequence, <<>> for None
UserFindById(reg, user_id) == DictGet(reg, "user_id", user_id)

\* User.find_by_name(name)
UserFindByNameQueryAsGiven(reg, name) ==
    SelectSeq(reg, LAMBDA u : IsSubstring(name, Lower(u.name)))

\* User.find_by_name(name)
UserFindByName(reg, name) ==
    SelectSeq(reg, LAMBDA u : IsSubstring(Lower(name), Lower(u.name)))

\* user.add_project(project_id) that also makes the user the project's owner
UserAddProjectBothSides(id, project_id) ==
    LET i == IndexOf(users, "user_id", id)
        j == IndexOf(projects, "project_id", project_id)
    IN  /\ i # 0
        /\ users' = IF InList(users[i].projects, project_id) THEN users
                    ELSE [users EXCEPT ![i].projects = Append(@, project_id)]
        /\ projects' = IF j = 0 THEN projects
                       ELSE [projects EXCEPT ![j].user_id = id + 1]
        /\ last' = Call("User.add_project", "")
        /\ UNCHANGED <<userNextId, projectNextId, taskVars, fileVars, envVars>>

\* user.add_project(project_id)
UserAddProject(id, project_id) ==
    LET i == IndexOf(users, "user_id", id)
    IN  /\ i # 0
        /\ users' = IF InList(users[i].projects, project_id) THEN users
                    ELSE [users EXCEPT ![i].projects = Append(@, project_id)]
        /\ last' = Call("User.add_project", "")
        /\ UNCHANGED <<userNextId, projectVars, taskVars, fileVars, envVars>>

\* user.remove_project(project_id)
UserRemoveProject(id, project_id) ==
    LET i == IndexOf(users, "user_id", id)
    IN  /\ i # 0
        /\ users' = IF InList(users[i].projects, project_id)
                    THEN [users EXCEPT ![i].projects = ListRemove(@, project_id)]
                    ELSE users
        /\ last' = Call("User.remove_project", "")
        /\ UNCHANGED <<userNextId, projectVars, taskVars, fileVars, envVars>>

\* user.to_dict()
UserToDict(u) ==
    [user_id |-> u.user_id, name |-> u.name, email |-> u.email,
     created_at |-> u.created_at, projects |-> u.projects]

\* User.from_dict(data) on a registry and a counter
UserFromDictOn(reg, next, data) ==
    IF ~ {"name", "email", "user_id"} \subseteq DOMAIN data
    THEN [reg |-> reg, next |-> next, ent |-> <<>>, err |-> "KeyError"]
    ELSE LET r == UserNew(reg, next, data.name, data.email, data.user_id,
                          Get(data, "created_at", 0), Get(data, "projects", <<>>))
         IN  [reg |-> r.reg, next |-> r.next, ent |-> <<r.ent>>, err |-> r.err]

\* User.from_dict(data)
UserFromDict(data) ==
    LET r == UserFromDictOn(users, userNextId, data)
    IN  /\ users' = r.reg
        /\ userNextId' = r.next
        /\ last' = [Call("User.from_dict", r.err)
                    EXCEPT !.id = IF r.ent = <<>> THEN 0 ELSE r.ent[1].user_id,
                           !.pre = IdSeq(users, "user_id")]
        /\ UNCHANGED <<projectVars, taskVars, fileVars, envVars>>

\* the loop of User.load_all over the records that are left
RECURSIVE UserLoadLoop(_, _, _)
UserLoadLoop(data, reg, next) ==
    IF data = <<>> THEN [reg |-> reg, next |-> next, err |-> ""]
    ELSE LET r == UserFromDictOn(reg, next, Head(data))
         IN  IF r.err # "" THEN [reg |-> r.reg, next |-> r.next, err |-> r.err]
             ELSE LET u == r.ent[1]
                  IN  UserLoadLoop(Tail(data), DictSet(r.reg, "user_id", u),
                                   IF u.user_id >= r.next THEN u.user_id + 1
                                   ELSE r.next)

\* a data file that does not exist, and one whose content is not JSON; any
\* other value of a file is the list of records it holds
FileAbsent == <<[file |-> "absent"]>>

FileMalformed == <<[file |-> "malformed"]>>

\* FileHandler.get_file_path(filename), which runs ensure_data_dir: a missing
\* data directory is created; a "blocked" one is missing and os.makedirs
\* cannot create it (a dangling link of that name, a read-only working
\* directory), and the OSError leaves get_file_path
DirStates == {"present", "absent", "blocked"}

FileGetFilePath(dir) ==
    [dir |-> IF dir = "absent" THEN "present" ELSE dir,
     err |-> IF dir = "blocked" THEN "OSError" ELSE ""]

\* the try block of FileHandler.load_data(filename): the data of an existing
\* file, [] when there is none and [] when json.load raises
FileLoadData(file) ==
    IF file = FileAbsent \/ file = FileMalformed THEN <<>> ELSE file

\* the ways the write of FileHandler.save_data can end: the data is written;
\* open raises and the file is as before; json.dump raises after open
\* truncated the file
WriteOutcomes == {"written", "refused", "torn"}

\* save_data opening the file to append ('a') where the code opens it to
\* write ('w')
FileSaveDataAppend(file, data, outcome) ==
    [file |-> CASE outcome = "written" ->
                       IF file = FileAbsent \/ file = FileMalformed THEN data
                       ELSE file \o data
                [] outcome = "refused" -> file
                [] OTHER -> FileMalformed,
     ok |-> outcome = "written"]

\* the try block of FileHandler.save_data(filename, data): the file
\* afterwards and the boolean returned.  The file is held as the records
\* json.load reads from it: json.dump and json.load are inverse on lists of
\* objects with string keys whose values are strings, integers and lists
\* of them, which is all a record here can be
FileSaveData(file, data, outcome) ==
    [file |-> CASE outcome = "written" -> data
                [] outcome = "refused" -> file
                [] OTHER -> FileMalformed,
     ok |-> outcome = "written"]

\* User.load_all on these records: the registry is cleared and the counter reset
UserLoadRecords(data) == UserLoadLoop(data, <<>>, 1)

\* User.load_all()
UserLoadAll ==
    LET p == FileGetFilePath(dataDir)
        r == UserLoadRecords(FileLoadData(usersFile))
    IN  /\ dataDir' = p.dir
        /\ users' = IF p.err = "" THEN r.reg ELSE users
        /\ userNextId' = IF p.err = "" THEN r.next ELSE userNextId
        /\ last' = [Call("User.load_all", IF p.err = "" THEN r.err ELSE p.err)
                    EXCEPT !.pre = IdSeq(users, "user_id"), !.after = last.op]
        /\ UNCHANGED <<projectVars, taskVars, usersFile, projectsFile, tasksFile,
                       envVars>>

\* the records User.save_all hands to FileHandler.save_data
UserSaveRecords(reg) == [i \in 1..Len(reg) |-> UserToDict(reg[i])]

\* User.save_all()
UserSaveAll(outcome) ==
    LET p == FileGetFilePath(dataDir)
        w == FileSaveData(usersFile, UserSaveRecords(users), outcome)
    IN  /\ dataDir' = p.dir
        /\ usersFile' = IF p.err = "" THEN w.file ELSE usersFile
        /\ last' = Call("User.save_all", p.err)
        /\ UNCHANGED <<userVars, projectVars, taskVars, projectsFile, tasksFile,
                       envVars>>

(***************************************************************************)
(* Task.                                                                   *)
(***************************************************************************)
\* Task.VALID_STATUSES
VALID_STATUSES == {"pending", "in_progress", "completed"}

\* Task.__init__: the id is taken before the status is validated, and the task
\* is registered only when the status is valid
TaskNew(reg, next, title, description, project_id, task_id, status, assigned, created_at) ==
    LET id  == IF task_id = 0 THEN next ELSE task_id
        ent == [task_id |-> id, title |-> title, description |-> description,
                status |-> status, project_id |-> project_id,
                assigned_users |-> assigned,
                created_at |-> IF created_at = 0 THEN now ELSE created_at]
        ok  == status \in VALID_STATUSES
    IN  [reg  |-> IF ok THEN DictSet(reg, "task_id", ent) ELSE reg,
         next |-> IF task_id = 0 THEN next + 1 ELSE next,
         ent  |-> ent,
         err  |-> IF ok THEN "" ELSE "ValueError"]

\* Task.create(title, description, project_id)
TaskCreate(title, description, project_id) ==
    LET r == TaskNew(tasks, taskNextId, title, description, project_id, 0,
                     "pending", <<>>, 0)
    IN  /\ tasks' = r.reg
        /\ taskNextId' = r.next
        /\ last' = [Call("Task.create", r.err) EXCEPT !.id = r.ent.task_id]
        /\ UNCHANGED <<userVars, projectVars, fileVars, envVars>>

\* the title setter on the task with this id
TaskSetTitle(id, value) ==
    LET i == IndexOf(tasks, "task_id", id)
        bad == value = <<>> \/ Strip(value) = <<>>
    IN  /\ i # 0
        /\ tasks' = IF bad THEN tasks
                    ELSE [tasks EXCEPT ![i].title = Strip(value)]
        /\ last' = Call("Task.title", IF bad THEN "ValueError" ELSE "")
        /\ UNCHANGED <<taskNextId, userVars, projectVars, fileVars, envVars>>

\* the status setter on the task with this id
TaskSetStatus(id, value) ==
    LET i == IndexOf(tasks, "task_id", id)
        bad == value \notin VALID_STATUSES
    IN  /\ i # 0
        /\ tasks' = IF bad THEN tasks ELSE [tasks EXCEPT ![i].status = value]
        /\ last' = Call("Task.status", IF bad THEN "ValueError" ELSE "")
        /\ UNCHANGED <<taskNextId, userVars, projectVars, fileVars, envVars>>

\* task.mark_complete() that completes a pending task only
TaskMarkCompleteFromPending(id) ==
    LET i == IndexOf(tasks, "task_id", id)
    IN  /\ i # 0
        /\ tasks' = IF tasks[i].status = "pending"
                    THEN [tasks EXCEPT ![i].status = "completed"]
                    ELSE tasks
        /\ last' = Call("Task.mark_complete", "")
        /\ UNCHANGED <<taskNextId, userVars, projectVars, fileVars, envVars>>

\* task.mark_complete(): the status setter with 'completed'
TaskMarkComplete(id) ==
    LET i == IndexOf(tasks, "task_id", id)
    IN  /\ i # 0
        /\ tasks' = [tasks EXCEPT ![i].status = "completed"]
        /\ last' = Call("Task.mark_complete", "")
        /\ UNCHANGED <<taskNextId, userVars, projectVars, fileVars, envVars>>

\* task.is_completed
TaskIsCompleted(t) == t.status = "completed"

\* Task.get_all()
TaskGetAll(reg) == reg

\* Task.find_by_id(task_id)
TaskFindById(reg, task_id) == DictGet(reg, "task_id", task_id)

\* Task.find_by_project(project_id)
TaskFindByProject(reg, project_id) ==
    SelectSeq(reg, LAMBDA t : t.project_id = project_id)

\* Task.find_by_user(user_id)
TaskFindByUser(reg, user_id) ==
    SelectSeq(reg, LAMBDA t : InList(t.assigned_users, user_id))

\* Task.find_by_status(status) without the test of the status
TaskFindByStatusNoTest(reg, status) ==
    [val |-> SelectSeq(reg, LAMBDA t : t.status = status), err |-> ""]

\* Task.find_by_status(status): the tasks found and the exception raised
TaskFindByStatus(reg, status) ==
    IF status \notin VALID_STATUSES
    THEN [val |-> <<>>, err |-> "ValueError"]
    ELSE [val |-> SelectSeq(reg, LAMBDA t : t.status = status), err |-> ""]

\* task.assign_user(user_id)
TaskAssignUser(id, user_id) ==
    LET i == IndexOf(tasks, "task_id", id)
    IN  /\ i # 0
        /\ tasks' = IF InList(tasks[i].assigned_users, user_id) THEN tasks
                    ELSE [tasks EXCEPT ![i].assigned_users = Append(@, user_id)]
        /\ last' = Call("Task.assign_user", "")
        /\ UNCHANGED <<taskNextId, userVars, projectVars, fileVars, envVars>>

\* task.unassign_user(user_id)
TaskUnassignUser(id, user_id) ==
    LET i == IndexOf(tasks, "task_id", id)
    IN  /\ i # 0
        /\ tasks' = IF InList(tasks[i].assigned_users, user_id)
                    THEN [tasks EXCEPT
                              ![i].assigned_users = ListRemove(@, user_id)]
                    ELSE tasks
        /\ last' = Call("Task.unassign_user", "")
        /\ UNCHANGED <<taskNextId, userVars, projectVars, fileVars, envVars>>

\* task.to_dict()
TaskToDict(t) ==
    [task_id |-> t.task_id, title |-> t.title, description |-> t.description,
     status |-> t.status, project_id |-> t.project_id,
     assigned_users |-> t.assigned_users, created_at |-> t.created_at]

\* Task.from_dict(data) on a registry and a counter
TaskFromDictOn(reg, next, data) ==
    IF ~ {"title", "description", "project_id", "task_id"} \subseteq DOMAIN data
    THEN [reg |-> reg, next |-> next, ent |-> <<>>, err |-> "KeyError"]
    ELSE LET r == TaskNew(reg, next, data.title, data.description,
                          data.project_id, data.task_id,
                          Get(data, "status", "pending"),
                          Get(data, "assigned_users", <<>>),
                          Get(data, "created_at", 0))
         IN  [reg |-> r.reg, next |-> r.next,
              ent |-> IF r.err = "" THEN <<r.ent>> ELSE <<>>, err |-> r.err]

\* Task.from_dict(data)
TaskFromDict(data) ==
    LET r == TaskFromDictOn(tasks, taskNextId, data)
    IN  /\ tasks' = r.reg
        /\ taskNextId' = r.next
        /\ last' = [Call("Task.from_dict", r.err)
                    EXCEPT !.id = IF r.ent = <<>> THEN 0 ELSE r.ent[1].task_id,
                           !.pre = IdSeq(tasks, "task_id")]
        /\ UNCHANGED <<userVars, projectVars, fileVars, envVars>>

\* the loop of Task.load_all over the records that are left
RECURSIVE TaskLoadLoop(_, _, _)
TaskLoadLoop(data, reg, next) ==
    IF data = <<>> THEN [reg |-> reg, next |-> next, err |-> ""]
    ELSE LET r == TaskFromDictOn(reg, next, Head(data))
         IN  IF r.err # "" THEN [reg |-> r.reg, next |-> r.next, err |-> r.err]
             ELSE LET t == r.ent[1]
                  IN  TaskLoadLoop(Tail(data), DictSet(r.reg, "task_id", t),
                                   IF t.task_id >= r.next THEN t.task_id + 1
                                   ELSE r.next)

\* Task.load_all without the clear() and the reset of the counter
TaskLoadRecordsNoClear(data) == TaskLoadLoop(data, tasks, taskNextId)

\* Task.load_all on these records: the registry is cleared and the counter reset
TaskLoadRecords(data) == TaskLoadLoop(data, <<>>, 1)

\* Task.load_all()
TaskLoadAll ==
    LET p == FileGetFilePath(dataDir)
        r == TaskLoadRecords(FileLoadData(tasksFile))
    IN  /\ dataDir' = p.dir
        /\ tasks' = IF p.err = "" THEN r.reg ELSE tasks
        /\ taskNextId' = IF p.err = "" THEN r.next ELSE taskNextId
        /\ last' = [Call("Task.load_all", IF p.err = "" THEN r.err ELSE p.err)
                    EXCEPT !.pre = IdSeq(tasks, "task_id"), !.after = last.op]
        /\ UNCHANGED <<userVars, projectVars, usersFile, projectsFile, tasksFile,
                       envVars>>

\* the records Task.save_all hands to FileHandler.save_data
TaskSaveRecords(reg) == [i \in 1..Len(reg) |-> TaskToDict(reg[i])]

\* Task.save_all()
TaskSaveAll(outcome) ==
    LET p == FileGetFilePath(dataDir)
        w == FileSaveData(tasksFile, TaskSaveRecords(tasks), outcome)
    IN  /\ dataDir' = p.dir
        /\ tasksFile' = IF p.err = "" THEN w.file ELSE tasksFile
        /\ last' = Call("Task.save_all", p.err)
        /\ UNCHANGED <<userVars, projectVars, taskVars, usersFile, projectsFile,
                       envVars>>

(***************************************************************************)
(* Project.                                                                *)
(***************************************************************************)
\* Project.__init__ without the insertion into the registry
ProjectNewUnregistered(reg, next, title, description, due_date, user_id, project_id, tsks, created_at) ==
    LET id  == IF project_id = 0 THEN next ELSE project_id
        due == ParseDate(due_date)
        ent == [project_id |-> id, title |-> title, description |-> description,
                due_date |-> due, user_id |-> user_id, tasks |-> tsks,
                created_at |-> IF created_at = 0 THEN now ELSE created_at]
    IN  [reg  |-> reg,
         next |-> IF project_id = 0 THEN next + 1 ELSE next,
         ent  |-> ent,
         err  |-> IF due # 0 THEN "" ELSE "ValueError"]

\* Project.__init__: the id is taken before the due date is parsed, and the
\* project is registered only when the date parses
ProjectNew(reg, next, title, description, due_date, user_id, project_id, tsks, created_at) ==
    LET id  == IF project_id = 0 THEN next ELSE project_id
        due == ParseDate(due_date)
        ent == [project_id |-> id, title |-> title, description |-> description,
                due_date |-> due, user_id |-> user_id, tasks |-> tsks,
                created_at |-> IF created_at = 0 THEN now ELSE created_at]
        ok  == due # 0
    IN  [reg  |-> IF ok THEN DictSet(reg, "project_id", ent) ELSE reg,
         next |-> IF project_id = 0 THEN next + 1 ELSE next,
         ent  |-> ent,
         err  |-> IF ok THEN "" ELSE "ValueError"]

\* Project.create(title, description, due_date, user_id)
ProjectCreate(title, description, due_date, user_id) ==
    LET r == ProjectNew(projects, projectNextId, title, description, due_date,
                        user_id, 0, <<>>, 0)
    IN  /\ projects' = r.reg
        /\ projectNextId' = r.next
        /\ last' = [Call("Project.create", r.err) EXCEPT !.id = r.ent.project_id]
        /\ UNCHANGED <<userVars, taskVars, fileVars, envVars>>

\* the title setter on the project with this id
ProjectSetTitle(id, value) ==
    LET i == IndexOf(projects, "project_id", id)
        bad == value = <<>> \/ Strip(value) = <<>>
    IN  /\ i # 0
        /\ projects' = IF bad THEN projects
                       ELSE [projects EXCEPT ![i].title = Strip(value)]
        /\ last' = Call("Project.title", IF bad THEN "ValueError" ELSE "")
        /\ UNCHANGED <<projectNextId, userVars, taskVars, fileVars, envVars>>

\* Project.get_all()
ProjectGetAll(reg) == reg

\* Project.find_by_id(project_id)
ProjectFindById(reg, project_id) == DictGet(reg, "project_id", project_id)

\* Project.find_by_user(user_id)
ProjectFindByUser(reg, user_id) == SelectSeq(reg, LAMBDA q : q.user_id = user_id)

\* Project.find_by_title(title)
ProjectFindByTitle(reg, title) ==
    SelectSeq(reg, LAMBDA q : IsSubstring(Lower(title), Lower(q.title)))

\* the due_date setter on the project with this id: parser.parse raises
\* before anything is assigned, and the setter raises ValueError in its place
ProjectSetDueDate(id, value) ==
    LET i == IndexOf(projects, "project_id", id)
        due == ParseDate(value)
    IN  /\ i # 0
        /\ projects' = IF due = 0 THEN projects
                       ELSE [projects EXCEPT ![i].due_date = due]
        /\ last' = Call("Project.due_date", IF due = 0 THEN "ValueError" ELSE "")
        /\ UNCHANGED <<projectNextId, userVars, taskVars, fileVars, envVars>>

\* project.add_task(task_id) with the membership test inverted
ProjectAddTaskInverted(id, task_id) ==
    LET i == IndexOf(projects, "project_id", id)
    IN  /\ i # 0
        /\ projects' = IF InList(projects[i].tasks, task_id)
                       THEN [projects EXCEPT ![i].tasks = Append(@, task_id)]
                       ELSE projects
        /\ last' = Call("Project.add_task", "")
        /\ UNCHANGED <<projectNextId, userVars, taskVars, fileVars, envVars>>

\* project.add_task(task_id)
ProjectAddTask(id, task_id) ==
    LET i == IndexOf(projects, "project_id", id)
    IN  /\ i # 0
        /\ projects' = IF InList(projects[i].tasks, task_id) THEN projects
                       ELSE [projects EXCEPT ![i].tasks = Append(@, task_id)]
        /\ last' = Call("Project.add_task", "")
        /\ UNCHANGED <<projectNextId, userVars, taskVars, fileVars, envVars>>

\* project.remove_task(task_id)
ProjectRemoveTask(id, task_id) ==
    LET i == IndexOf(projects, "project_id", id)
    IN  /\ i # 0
        /\ projects' = IF InList(projects[i].tasks, task_id)
                       THEN [projects EXCEPT ![i].tasks = ListRemove(@, task_id)]
                       ELSE projects
        /\ last' = Call("Project.remove_task", "")
        /\ UNCHANGED <<projectNextId, userVars, taskVars, fileVars, envVars>>

\* the sum that counts every listed task that resolves, whatever its status
RECURSIVE CompletedCountAnyStatus(_, _)
CompletedCountAnyStatus(lst, reg) ==
    IF lst = <<>> THEN 0
    ELSE LET t == DictGet(reg, "task_id", Head(lst))
         IN  (IF t # <<>> THEN 1 ELSE 0)
             + CompletedCountAnyStatus(Tail(lst), reg)

\* sum(1 for task_id in lst if (task := Task.find_by_id(task_id))
\*                              and task.status == 'completed')
RECURSIVE CompletedCount(_, _)
CompletedCount(lst, reg) ==
    IF lst = <<>> THEN 0
    ELSE LET t == DictGet(reg, "task_id", Head(lst))
         IN  (IF t # <<>> /\ t[1].status = "completed" THEN 1 ELSE 0)
             + CompletedCount(Tail(lst), reg)

\* project.get_completion_percentage() as the fraction <<numerator, denominator>>;
\* 0.0 is <<0, 1>>
CompletionPercentage(p, reg) ==
    IF p.tasks = <<>> THEN <<0, 1>>
    ELSE <<CompletedCount(p.tasks, reg) * 100, Len(p.tasks)>>

\* a call of get_completion_percentage on the project with this id
ProjectGetCompletionPercentage(id) ==
    LET i == IndexOf(projects, "project_id", id)
    IN  /\ i # 0
        /\ last' = [Call("Project.get_completion_percentage", "")
                    EXCEPT !.id = id,
                           !.val = CompletionPercentage(projects[i], tasks)]
        /\ UNCHANGED <<userVars, projectVars, taskVars, fileVars, envVars>>

\* project.to_dict() without the 'tasks' key
ProjectToDictNoTasks(p) ==
    [project_id |-> p.project_id, title |-> p.title,
     description |-> p.description, due_date |-> IsoFormat(p.due_date),
     user_id |-> p.user_id, created_at |-> p.created_at]

\* project.to_dict()
ProjectToDict(p) ==
    [project_id |-> p.project_id, title |-> p.title,
     description |-> p.description, due_date |-> IsoFormat(p.due_date),
     user_id |-> p.user_id, tasks |-> p.tasks, created_at |-> p.created_at]

\* Project.from_dict(data) on a registry and a counter
ProjectFromDictOn(reg, next, data) ==
    IF ~ {"title", "description", "due_date", "user_id", "project_id"}
             \subseteq DOMAIN data
    THEN [reg |-> reg, next |-> next, ent |-> <<>>, err |-> "KeyError"]
    ELSE LET r == ProjectNew(reg, next, data.title, data.description,
                             data.due_date, data.user_id, data.project_id,
                             Get(data, "tasks", <<>>),
                             Get(data, "created_at", 0))
         IN  [reg |-> r.reg, next |-> r.next,
              ent |-> IF r.err = "" THEN <<r.ent>> ELSE <<>>, err |-> r.err]

\* Project.from_dict(data)
ProjectFromDict(data) ==
    LET r == ProjectFromDictOn(projects, projectNextId, data)
    IN  /\ projects' = r.reg
        /\ projectNextId' = r.next
        /\ last' = [Call("Project.from_dict", r.err)
                    EXCEPT !.id = IF r.ent = <<>> THEN 0 ELSE r.ent[1].project_id,
                           !.pre = IdSeq(projects, "project_id")]
        /\ UNCHANGED <<userVars, taskVars, fileVars, envVars>>

\* the loop of Project.load_all over the records that are left
RECURSIVE ProjectLoadLoop(_, _, _)
ProjectLoadLoop(data, reg, next) ==
    IF data = <<>> THEN [reg |-> reg, next |-> next, err |-> ""]
    ELSE LET r == ProjectFromDictOn(reg, next, Head(data))
         IN  IF r.err # "" THEN [reg |-> r.reg, next |-> r.next, err |-> r.err]
             ELSE LET p == r.ent[1]
                  IN  ProjectLoadLoop(Tail(data),
                                      DictSet(r.reg, "project_id", p),
                                      IF p.project_id >= r.next
                                      THEN p.project_id + 1 ELSE r.next)

\* Project.load_all on these records: the registry is cleared, the counter reset
ProjectLoadRecords(data) == ProjectLoadLoop(data, <<>>, 1)

\* Project.load_all()
ProjectLoadAll ==
    LET p == FileGetFilePath(dataDir)
        r == ProjectLoadRecords(FileLoadData(projectsFile))
    IN  /\ dataDir' = p.dir
        /\ projects' = IF p.err = "" THEN r.reg ELSE projects
        /\ projectNextId' = IF p.err = "" THEN r.next ELSE projectNextId
        /\ last' = [Call("Project.load_all", IF p.err = "" THEN r.err ELSE p.err)
                    EXCEPT !.pre = IdSeq(projects, "project_id"), !.after = last.op]
        /\ UNCHANGED <<userVars, taskVars, usersFile, projectsFile, tasksFile,
                       envVars>>

\* the records Project.save_all hands to FileHandler.save_data
ProjectSaveRecords(reg) == [i \in 1..Len(reg) |-> ProjectToDict(reg[i])]

\* Project.save_all()
ProjectSaveAll(outcome) ==
    LET p == FileGetFilePath(dataDir)
        w == FileSaveData(projectsFile, ProjectSaveRecords(projects), outcome)
    IN  /\ dataDir' = p.dir
        /\ projectsFile' = IF p.err = "" THEN w.file ELSE projectsFile
        /\ last' = Call("Project.save_all", p.err)
        /\ UNCHANGED <<userVars, projectVars, taskVars, usersFile, tasksFile,
                       envVars>>

(***************************************************************************)
(* The initial state: the class attributes as the class bodies set them,   *)
(* and no data file on disk yet.                                           *)
(***************************************************************************)
InitEmpty ==
    /\ users = <<>> /\ userNextId = 1
    /\ projects = <<>> /\ projectNextId = 1
    /\ tasks = <<>> /\ taskNextId = 1
    /\ usersFile = FileAbsent /\ projectsFile = FileAbsent
    /\ tasksFile = FileAbsent
    /\ dataDir = "absent"
    /\ now = 5
    /\ kind = "all"
    /\ pc = {}
    /\ last = Call("", "")

UserIds    == Ids(users, "user_id")
ProjectIds == Ids(projects, "project_id")
TaskIds    == Ids(tasks, "task_id")

(***************************************************************************)
(* SpecIds: the three registries side by side, from empty, under create    *)
(* calls interleaved with setters and relationship operations.             *)
(***************************************************************************)
CreateUserStep ==
    userNextId <= MaxCreate /\ UserCreate(StrAl, StrMail)

CreateProjectStep ==
    \E d \in {"2099-01-01", "someday"} :
        projectNextId <= MaxCreate /\ ProjectCreate(StrLaunch, <<>>, d, 1)

CreateTaskStep ==
    taskNextId <= MaxCreate /\ TaskCreate(StrDoc, <<>>, 1)

SetterStep ==
    \/ \E id \in UserIds, v \in {StrA, StrAl} : UserSetName(id, v)
    \/ \E id \in ProjectIds, v \in {StrBlank, StrLaunch} : ProjectSetTitle(id, v)
    \/ \E id \in TaskIds, v \in {"pending", "bogus"} : TaskSetStatus(id, v)

\* the relationship operations, on the first entity of each kind
RelationStep ==
    \/ UserAddProject(1, 1)
    \/ UserRemoveProject(1, 1)
    \/ ProjectAddTask(1, 1)
    \/ ProjectRemoveTask(1, 1)
    \/ TaskAssignUser(1, 1)
    \/ TaskUnassignUser(1, 1)

NextIds ==
    \/ CreateUserStep /\ UNCHANGED pc
    \/ CreateProjectStep /\ UNCHANGED pc
    \/ CreateTaskStep /\ UNCHANGED pc
    \/ SetterStep /\ UNCHANGED pc
    \/ RelationStep /\ UNCHANGED pc

SpecIds == InitEmpty /\ [][NextIds]_vars

\* <<1, ..., n>>
OneTo(n) == [i \in 1..n |-> i]

\* the ids are strictly increasing along the sequence
Increasing(ids) == \A i, j \in 1..Len(ids) : i < j => ids[i] < ids[j]

\* C1, the registries: the k-th User and the k-th Task in insertion order have
\* id k and the counter is one past their number; Project.create raises on an
\* unparsable date after taking its id, so the ids of the projects are
\* strictly increasing and below the counter.
C1_Registries ==
    /\ IdSeq(users, "user_id") = OneTo(Len(users))
    /\ userNextId = Len(users) + 1
    /\ IdSeq(tasks, "task_id") = OneTo(Len(tasks))
    /\ taskNextId = Len(tasks) + 1
    /\ Increasing(IdSeq(projects, "project_id"))
    /\ \A id \in ProjectIds : id < projectNextId

\* C1, the steps: a create call returns the counter's value, which no entity
\* has yet, advances that counter by one and leaves the other two registries
\* and counters alone; no other call changes a counter or a registry's ids.
C1_Steps ==
    /\ CreateUserStep =>
           /\ last'.id = userNextId /\ userNextId \notin UserIds
           /\ userNextId' = userNextId + 1
           /\ UNCHANGED <<projectVars, taskVars>>
    /\ CreateProjectStep =>
           /\ last'.id = projectNextId /\ projectNextId \notin ProjectIds
           /\ projectNextId' = projectNextId + 1
           /\ UNCHANGED <<userVars, taskVars>>
    /\ CreateTaskStep =>
           /\ last'.id = taskNextId /\ taskNextId \notin TaskIds
           /\ taskNextId' = taskNextId + 1
           /\ UNCHANGED <<userVars, projectVars>>
    /\ (SetterStep \/ RelationStep) =>
           /\ UNCHANGED <<userNextId, projectNextId, taskNextId>>
           /\ IdSeq(users', "user_id") = IdSeq(users, "user_id")
           /\ IdSeq(projects', "project_id") = IdSeq(projects, "project_id")
           /\ IdSeq(tasks', "task_id") = IdSeq(tasks, "task_id")

\* C1: from empty registries with counters at 1, under create calls
\* interleaved with setters and relationship operations, the k-th create of a
\* kind returns id k, the ids returned are strictly increasing and never
\* repeated, and a create of one kind leaves the other kinds' counters and
\* registries unchanged.
C1_KthCreateReturnsK == [] C1_Registries /\ [][C1_Steps]_vars

\* C1's case: the second task was just created, beside two users and a
\* project, after a relationship operation and a create that raised
C1_Witness ==
    /\ last.op = "Task.create" /\ last.id = 2
    /\ IdSeq(users, "user_id") = <<1, 2>>
    /\ IdSeq(projects, "project_id") = <<2>>
    /\ users[1].projects = <<1>>

(***************************************************************************)
(* SpecStore: load_all and save_all.  A behaviour exercises one registry   *)
(* (kind) against its own file: the data directory holds one of a few      *)
(* files when the process starts, and the registry is then loaded, grown   *)
(* by create, changed by a relationship operation and saved, in any order. *)
(***************************************************************************)
\* flat records of users.json
UserRec(id, projs) ==
    [user_id |-> id, name |-> StrAl, email |-> StrMail, created_at |-> 1,
     projects |-> projs]

\* users.json as the process finds it: absent or empty; ids 2 and 1 in that
\* order; only the required keys; a project id twice in a list; a record
\* without its name after a well-formed one
UserFiles ==
    { <<>>,
      <<UserRec(2, <<>>), UserRec(1, <<1>>)>>,
      <<[user_id |-> 1, name |-> StrAna, email |-> StrAnaMail]>>,
      <<UserRec(3, <<2, 2>>)>>,
      <<UserRec(1, <<>>), [user_id |-> 2, email |-> StrMail]>> }

\* flat records of projects.json
ProjectRec(id, due, tsks) ==
    [project_id |-> id, title |-> StrLaunch, description |-> <<>>,
     due_date |-> due, user_id |-> 1, tasks |-> tsks, created_at |-> 1]

\* projects.json as the process finds it: also a date without a time, a
\* record without its description, and a date that does not parse
ProjectFiles ==
    { <<>>,
      <<ProjectRec(2, "2099-01-01T00:00:00", <<>>),
        ProjectRec(1, "2020-01-01", <<1>>)>>,
      <<[project_id |-> 1, title |-> StrLaunch, description |-> <<>>,
         due_date |-> "2099-01-01", user_id |-> 1]>>,
      <<ProjectRec(1, "2020-01-01", <<>>),
        [project_id |-> 2, title |-> StrLaunch, due_date |-> "2099-01-01",
         user_id |-> 1]>>,
      <<ProjectRec(2, "2099-01-01", <<>>), ProjectRec(1, "someday", <<>>)>> }

\* flat records of tasks.json
TaskRec(id, status, assigned) ==
    [task_id |-> id, title |-> StrDoc, description |-> <<>>, status |-> status,
     project_id |-> 1, assigned_users |-> assigned, created_at |-> 1]

\* tasks.json as the process finds it: also a record without its title and a
\* status outside VALID_STATUSES
TaskFiles ==
    { <<>>,
      <<TaskRec(2, "completed", <<>>), TaskRec(1, "in_progress", <<1>>)>>,
      <<[task_id |-> 1, title |-> StrDoc, description |-> <<>>,
         project_id |-> 1]>>,
      <<TaskRec(1, "pending", <<>>),
        [task_id |-> 2, description |-> <<>>, project_id |-> 1]>>,
      <<TaskRec(2, "pending", <<>>), TaskRec(1, "bogus", <<>>)>> }

InitStore ==
    /\ users = <<>> /\ userNextId = 1
    /\ projects = <<>> /\ projectNextId = 1
    /\ tasks = <<>> /\ taskNextId = 1
    /\ kind \in {"user", "project", "task"}
    /\ usersFile \in (IF kind = "user" THEN UserFiles ELSE {<<>>})
    /\ projectsFile \in (IF kind = "project" THEN ProjectFiles ELSE {<<>>})
    /\ tasksFile \in (IF kind = "task" THEN TaskFiles ELSE {<<>>})
    /\ dataDir = "present"
    /\ now = 5
    /\ pc = {}
    /\ last = Call("", "")

UserStoreStep ==
    \/ UserLoadAll
    \/ UserSaveAll("written")
    \/ userNextId <= MaxId /\ UserCreate(StrAl, StrMail)
    \/ \E id \in UserIds : UserAddProject(id, 1)

ProjectStoreStep ==
    \/ ProjectLoadAll
    \/ ProjectSaveAll("written")
    \/ projectNextId <= MaxId
           /\ ProjectCreate(StrLaunch, <<>>, "2020-01-01", 1)
    \/ \E id \in ProjectIds : ProjectAddTask(id, 1)

TaskStoreStep ==
    \/ TaskLoadAll
    \/ TaskSaveAll("written")
    \/ taskNextId <= MaxId /\ TaskCreate(StrDoc, <<>>, 1)
    \/ \E id \in TaskIds : TaskMarkComplete(id)

NextStore ==
    \/ kind = "user" /\ UserStoreStep /\ UNCHANGED pc
    \/ kind = "project" /\ ProjectStoreStep /\ UNCHANGED pc
    \/ kind = "task" /\ TaskStoreStep /\ UNCHANGED pc

SpecStore == InitStore /\ [][NextStore]_vars

\* the largest id of a set of ids, 0 for the empty set
MaxOf(S) == IF S = {} THEN 0 ELSE CHOOSE m \in S : \A x \in S : x <= m

\* C2, one registry: a load_all right after a save_all leaves every entity,
\* the order of the entities and every field as they were, raises nothing,
\* and sets the counter to the largest id plus one
C2_Steps ==
    /\ (last.op = "User.save_all" /\ UserLoadAll) =>
           /\ users' = users /\ last'.err = ""
           /\ userNextId' = MaxOf(UserIds) + 1
    /\ (last.op = "Project.save_all" /\ ProjectLoadAll) =>
           /\ projects' = projects /\ last'.err = ""
           /\ projectNextId' = MaxOf(ProjectIds) + 1
    /\ (last.op = "Task.save_all" /\ TaskLoadAll) =>
           /\ tasks' = tasks /\ last'.err = ""
           /\ taskNextId' = MaxOf(TaskIds) + 1

\* C2: in every reachable registry state, save_all followed by load_all on
\* the same file yields a registry with the same ids, the same field values
\* (relationship lists and their order included), the same insertion order,
\* and an id counter of the largest id plus one.
C2_SaveLoadRoundTrip == [][C2_Steps]_vars

\* C2's case: projects.json was saved and loaded back with two projects, the
\* larger id first, a due date in 2020 and a task list that is not empty
C2_Witness ==
    /\ last.op = "Project.load_all" /\ last.after = "Project.save_all"
    /\ Len(projects) = 3
    /\ projects[1].project_id = 2
    /\ projects[2].due_date = 1 /\ projects[2].tasks = <<1>>
    /\ projects[3].created_at = 5

\* the entity a well-formed flat record stands for: the stored id and fields,
\* the defaults for the optional keys, and the current time for a record
\* that carries no creation time
C3_UserOf(d) ==
    [user_id |-> d.user_id, name |-> d.name, email |-> d.email,
     created_at |-> IF "created_at" \in DOMAIN d THEN d.created_at ELSE now,
     projects |-> IF "projects" \in DOMAIN d THEN d.projects ELSE <<>>]

C3_ProjectOf(d) ==
    [project_id |-> d.project_id, title |-> d.title,
     description |-> d.description, due_date |-> ParseDate(d.due_date),
     user_id |-> d.user_id,
     tasks |-> IF "tasks" \in DOMAIN d THEN d.tasks ELSE <<>>,
     created_at |-> IF "created_at" \in DOMAIN d THEN d.created_at ELSE now]

C3_TaskOf(d) ==
    [task_id |-> d.task_id, title |-> d.title, description |-> d.description,
     status |-> IF "status" \in DOMAIN d THEN d.status ELSE "pending",
     project_id |-> d.project_id,
     assigned_users |->
         IF "assigned_users" \in DOMAIN d THEN d.assigned_users ELSE <<>>,
     created_at |-> IF "created_at" \in DOMAIN d THEN d.created_at ELSE now]

\* C3, the state a load_all returns in: the registry holds the entities of the
\* file's records, in the file's order, and nothing else, and the counter is
\* the largest loaded id plus one (1 for no records)
C3_Loaded ==
    /\ (last.op = "User.load_all" /\ last.err = "") =>
           /\ users = [i \in 1..Len(usersFile) |-> C3_UserOf(usersFile[i])]
           /\ userNextId = MaxOf(Ids(usersFile, "user_id")) + 1
    /\ (last.op = "Project.load_all" /\ last.err = "") =>
           /\ projects =
                  [i \in 1..Len(projectsFile) |-> C3_ProjectOf(projectsFile[i])]
           /\ projectNextId = MaxOf(Ids(projectsFile, "project_id")) + 1
    /\ (last.op = "Task.load_all" /\ last.err = "") =>
           /\ tasks = [i \in 1..Len(tasksFile) |-> C3_TaskOf(tasksFile[i])]
           /\ taskNextId = MaxOf(Ids(tasksFile, "task_id")) + 1

\* C3, the create that follows a load_all is assigned that value
C3_NextCreate ==
    /\ (last.op = "User.load_all" /\ last.err = ""
            /\ UserCreate(StrAl, StrMail)) =>
           last'.id = MaxOf(Ids(usersFile, "user_id")) + 1
    /\ (last.op = "Project.load_all" /\ last.err = ""
            /\ ProjectCreate(StrLaunch, <<>>, "2020-01-01", 1)) =>
           last'.id = MaxOf(Ids(projectsFile, "project_id")) + 1
    /\ (last.op = "Task.load_all" /\ last.err = ""
            /\ TaskCreate(StrDoc, <<>>, 1)) =>
           last'.id = MaxOf(Ids(tasksFile, "task_id")) + 1

\* C3: load_all replaces the registry's entire contents: when it returns, the
\* registry holds exactly the entities of the loaded records, every entity
\* present before is gone, and the id counter is the largest loaded id plus
\* one, or 1 when no records were loaded, which the next create is assigned.
C3_LoadReplacesRegistry == [] C3_Loaded /\ [][C3_NextCreate]_vars

\* C3's case: tasks.json holds ids 2 and 1 in that order; a load_all has
\* dropped task 3, which create had added, and the counter is 3 again
C3_Witness ==
    /\ last.op = "Task.load_all" /\ last.err = ""
    /\ last.pre = <<2, 1, 3>>
    /\ IdSeq(tasks, "task_id") = <<2, 1>>
    /\ taskNextId = 3

\* the number of records before the first one that misses a key of req
C4_Preceding(file, req) ==
    Cardinality({j \in 1..Len(file) :
                     \A k \in 1..j : req \subseteq DOMAIN file[k]})

\* the ids of those records
C4_PrecedingIds(file, req, f) ==
    IdSeq(SubSeq(file, 1, C4_Preceding(file, req)), f)

\* the registry was changed by the load and holds the records that preceded
\* the malformed one, and only those
C4_Partial(reg, file, req, f) ==
    /\ C4_Preceding(file, req) > 0
    /\ IdSeq(reg, f) = C4_PrecedingIds(file, req, f)
    /\ IdSeq(reg, f) # last.pre

\* C4: when load_all meets a record that misses a required field the whole
\* load fails, with no partial recovery: the registry does not end up holding
\* only the records that preceded the malformed one.
C4_NoPartialLoad ==
    /\ (last.op = "User.load_all" /\ last.err = "KeyError") =>
           ~ C4_Partial(users, usersFile, {"name", "email", "user_id"},
                        "user_id")
    /\ (last.op = "Project.load_all" /\ last.err = "KeyError") =>
           ~ C4_Partial(projects, projectsFile,
                        {"title", "description", "due_date", "user_id",
                         "project_id"}, "project_id")
    /\ (last.op = "Task.load_all" /\ last.err = "KeyError") =>
           ~ C4_Partial(tasks, tasksFile,
                        {"title", "description", "project_id", "task_id"},
                        "task_id")

(***************************************************************************)
(* SpecRel: the relationship lists.  A behaviour exercises one kind:       *)
(* entities come from create, from_dict and load_all, and their lists are  *)
(* changed by the add and remove operations.                               *)
(***************************************************************************)
\* the lists a flat record may carry
RelLists == {<<>>, <<1, 1>>, <<2, 1>>}

\* the ids handed to the add and remove operations
RelIds == {1, 2}

InitRel ==
    /\ users = <<>> /\ userNextId = 1
    /\ projects = <<>> /\ projectNextId = 1
    /\ tasks = <<>> /\ taskNextId = 1
    /\ kind \in {"user", "project", "task"}
    /\ usersFile \in (IF kind = "user" THEN {<<>>, <<UserRec(1, <<1, 1>>)>>}
                      ELSE {<<>>})
    /\ projectsFile \in
           (IF kind = "project"
            THEN {<<>>, <<ProjectRec(1, "2099-01-01", <<1, 1>>)>>}
            ELSE {<<>>})
    /\ tasksFile \in
           (IF kind = "task" THEN {<<>>, <<TaskRec(1, "pending", <<1, 1>>)>>}
            ELSE {<<>>})
    /\ dataDir = "present"
    /\ now = 5
    /\ pc = {}
    /\ last = Call("", "")

UserRelStep ==
    \/ \E n \in {StrA, StrAl} : userNextId <= MaxRel /\ UserCreate(n, StrMail)
    \/ \E id \in 1..MaxRel, l \in RelLists : UserFromDict(UserRec(id, l))
    \/ UserLoadAll
    \/ \E id \in UserIds, x \in RelIds : UserAddProject(id, x)
    \/ \E id \in UserIds, x \in RelIds : UserRemoveProject(id, x)

ProjectRelStep ==
    \/ projectNextId <= MaxRel
           /\ ProjectCreate(StrLaunch, <<>>, "2099-01-01", 1)
    \/ \E id \in 1..MaxRel, l \in RelLists :
           ProjectFromDict(ProjectRec(id, "2099-01-01", l))
    \/ ProjectLoadAll
    \/ \E id \in ProjectIds, x \in RelIds : ProjectAddTask(id, x)
    \/ \E id \in ProjectIds, x \in RelIds : ProjectRemoveTask(id, x)

TaskRelStep ==
    \/ taskNextId <= MaxRel /\ TaskCreate(StrDoc, <<>>, 1)
    \/ \E id \in 1..MaxRel, l \in RelLists :
           TaskFromDict(TaskRec(id, "pending", l))
    \/ TaskLoadAll
    \/ \E id \in TaskIds, x \in RelIds : TaskAssignUser(id, x)
    \/ \E id \in TaskIds, x \in RelIds : TaskUnassignUser(id, x)

NextRel ==
    \/ kind = "user" /\ UserRelStep /\ UNCHANGED pc
    \/ kind = "project" /\ ProjectRelStep /\ UNCHANGED pc
    \/ kind = "task" /\ TaskRelStep /\ UNCHANGED pc

SpecRel == InitRel /\ [][NextRel]_vars

\* no id occurs twice in the list
NoDuplicates(lst) == \A i, j \in 1..Len(lst) : lst[i] = lst[j] => i = j

\* C5: in every reachable state, reached by any sequence of create,
\* relationship add/remove, from_dict and load_all operations, no relationship
\* list (user.projects, project.tasks, task.assigned_users) holds an id twice.
C5_NoDuplicateIds ==
    /\ \A i \in 1..Len(users) : NoDuplicates(users[i].projects)
    /\ \A i \in 1..Len(projects) : NoDuplicates(projects[i].tasks)
    /\ \A i \in 1..Len(tasks) : NoDuplicates(tasks[i].assigned_users)

\* the list without every occurrence of x, the other ids in their order
Without(lst, x) == SelectSeq(lst, LAMBDA y : y # x)

\* C6, an add on a list that holds the id and a remove on a list that does not
\* leave the list as it was; after a remove the id is not in the list and the
\* other ids are in the order they had
C6_AddRemove(before, after, x, isAdd) ==
    /\ (isAdd /\ InList(before, x)) => after = before
    /\ (~ isAdd /\ ~ InList(before, x)) => after = before
    /\ ~ isAdd => (~ InList(after, x) /\ after = Without(before, x))

C6_Steps ==
    /\ \A id \in UserIds, x \in RelIds :
           LET i == IndexOf(users, "user_id", id)
           IN  /\ UserAddProject(id, x) =>
                      /\ C6_AddRemove(users[i].projects, users'[i].projects,
                                      x, TRUE)
                      /\ last'.err = ""
               /\ UserRemoveProject(id, x) =>
                      /\ C6_AddRemove(users[i].projects, users'[i].projects,
                                      x, FALSE)
                      /\ last'.err = ""
    /\ \A id \in ProjectIds, x \in RelIds :
           LET i == IndexOf(projects, "project_id", id)
           IN  /\ ProjectAddTask(id, x) =>
                      /\ C6_AddRemove(projects[i].tasks, projects'[i].tasks,
                                      x, TRUE)
                      /\ last'.err = ""
               /\ ProjectRemoveTask(id, x) =>
                      /\ C6_AddRemove(projects[i].tasks, projects'[i].tasks,
                                      x, FALSE)
                      /\ last'.err = ""
    /\ \A id \in TaskIds, x \in RelIds :
           LET i == IndexOf(tasks, "task_id", id)
           IN  /\ TaskAssignUser(id, x) =>
                      /\ C6_AddRemove(tasks[i].assigned_users,
                                      tasks'[i].assigned_users, x, TRUE)
                      /\ last'.err = ""
               /\ TaskUnassignUser(id, x) =>
                      /\ C6_AddRemove(tasks[i].assigned_users,
                                      tasks'[i].assigned_users, x, FALSE)
                      /\ last'.err = ""

\* C6: each of the six relationship operations is idempotent: an add of an id
\* already in the list and a remove of an id not in the list leave the list
\* unchanged and raise no error; after a remove the id is not in the list and
\* the relative order of the other ids is preserved.
C6_RelationshipIdempotent == [][C6_Steps]_vars

\* C10: User.create with a name shorter than 2 characters fails with a
\* validation error and registers no user, while a name of 2 or more
\* characters succeeds.
C10_ShortNameRejected ==
    last.op = "User.create" =>
        IF Len(last.text) < 2
        THEN last.err = "ValueError" /\ last.id \notin UserIds
        ELSE last.err = "" /\ last.id \in UserIds

(***************************************************************************)
(* SpecPct: one project, its task list and the Task registry, with         *)
(* get_completion_percentage called in any state.  add_task takes any id,  *)
(* so the list may name a task that the registry does not hold.            *)
(***************************************************************************)
NextPct ==
    \/ /\ projectNextId <= 1
       /\ ProjectCreate(StrLaunch, <<>>, "2099-01-01", 1)
       /\ UNCHANGED pc
    \/ /\ taskNextId <= MaxTasks
       /\ TaskCreate(StrDoc, <<>>, 1)
       /\ UNCHANGED pc
    \/ \E id \in ProjectIds, x \in 1..MaxTasks :
           ProjectAddTask(id, x) /\ UNCHANGED pc
    \/ \E id \in ProjectIds, x \in 1..MaxTasks :
           ProjectRemoveTask(id, x) /\ UNCHANGED pc
    \/ \E id \in TaskIds, v \in VALID_STATUSES :
           TaskSetStatus(id, v) /\ UNCHANGED pc
    \/ \E id \in TaskIds : TaskMarkComplete(id) /\ UNCHANGED pc
    \/ \E id \in ProjectIds :
           ProjectGetCompletionPercentage(id) /\ UNCHANGED pc

SpecPct == InitEmpty /\ [][NextPct]_vars

\* the project the last call was made on
PctProject == projects[IndexOf(projects, "project_id", last.id)]

\* the positions of its task list whose id resolves to a task
PctResolving ==
    {i \in 1..Len(PctProject.tasks) : PctProject.tasks[i] \in TaskIds}

\* the positions whose id resolves to a task with status completed
PctCompleted ==
    {i \in PctResolving :
         tasks[IndexOf(tasks, "task_id", PctProject.tasks[i])].status
             = "completed"}

\* C7: completion_percentage skips the ids of the task list that do not
\* resolve: a dangling id counts neither in the total nor as complete, and the
\* result is 100 * (resolving tasks with status completed) / (resolving tasks).
C7_DanglingSkipped ==
    (last.op = "Project.get_completion_percentage" /\ PctResolving # {}) =>
        last.val[1] * Cardinality(PctResolving)
            = 100 * Cardinality(PctCompleted) * last.val[2]

\* C9: when every id of the task list resolves, completion_percentage is
\* 100 * (listed tasks with status completed) / (listed tasks); it is 0 for an
\* empty list, and it always lies between 0 and 100.
C9_Percentage ==
    last.op = "Project.get_completion_percentage" =>
        /\ last.val[2] > 0
        /\ 0 <= last.val[1] /\ last.val[1] <= 100 * last.val[2]
        /\ PctProject.tasks = <<>> => last.val[1] = 0
        /\ Cardinality(PctResolving) = Len(PctProject.tasks) =>
               last.val[1] * Len(PctProject.tasks)
                   = 100 * Cardinality(PctCompleted) * last.val[2]

\* C9's case: two listed tasks, both in the registry, one of them completed,
\* and the call returns 50
C9_Witness ==
    /\ last.op = "Project.get_completion_percentage"
    /\ Len(PctProject.tasks) = 2
    /\ Cardinality(PctResolving) = 2
    /\ Cardinality(PctCompleted) = 1
    /\ last.val[1] = 50 * last.val[2]

(***************************************************************************)
(* SpecScenario: the end-to-end scenario on empty registries.  pc holds    *)
(* the steps made so far: user, project and task in that order, then the   *)
(* assignment and the completion.  Around them the caller may link the two *)
(* sides the way the CLI's add-project and add-task do (user.add_project,  *)
(* project.add_task), may pass through in_progress, may complete the task  *)
(* through mark_complete or the status setter, and may ask for the         *)
(* completion percentage at any time.                                      *)
(***************************************************************************)
Step(name, before) == name \notin pc /\ before \subseteq pc /\ pc' = pc \cup {name}

NextScenario ==
    \/ Step("user", {}) /\ UserCreate(StrAna, StrAnaMail)
    \/ Step("project", {"user"})
           /\ ProjectCreate(StrLaunch, <<>>, "2099-01-01", 1)
    \/ Step("own", {"project"}) /\ UserAddProject(1, 1)
    \/ Step("task", {"project"}) /\ TaskCreate(StrDoc, <<>>, 1)
    \/ Step("link", {"project"}) /\ ProjectAddTask(1, 1)
    \/ Step("progress", {"task"}) /\ "complete" \notin pc
           /\ TaskSetStatus(1, "in_progress")
    \/ Step("assign", {"task"}) /\ TaskAssignUser(1, 1)
    \/ Step("complete", {"task"}) /\ TaskMarkComplete(1)
    \/ Step("complete", {"task"}) /\ TaskSetStatus(1, "completed")
    \/ "project" \in pc /\ ProjectGetCompletionPercentage(1) /\ UNCHANGED pc

SpecScenario == InitEmpty /\ [][NextScenario]_vars

\* the scenario's calls have been made and the percentage of project 1 asked
ScenarioDone ==
    /\ {"user", "project", "task", "assign", "complete"} \subseteq pc
    /\ last.op = "Project.get_completion_percentage"
    /\ last.id = 1

\* the ids and the status the scenario names
ScenarioIds ==
    /\ IdSeq(users, "user_id") = <<1>> /\ users[1].name = StrAna
    /\ IdSeq(projects, "project_id") = <<1>> /\ projects[1].user_id = 1
    /\ IdSeq(tasks, "task_id") = <<1>> /\ tasks[1].project_id = 1
    /\ tasks[1].assigned_users = <<1>>
    /\ tasks[1].status = "completed"

\* C8 as stated: create User Ana (id 1), Project Launch owned by user 1
\* (id 1), Task 'Write doc' under project 1 (id 1, pending), assign user 1 to
\* task 1, mark task 1 complete; then project 1's completion_percentage is 100.
C8_ScenarioAsStated ==
    ScenarioDone => (ScenarioIds /\ last.val[1] = 100 * last.val[2])

\* C8 amended: the same calls, and task 1 added to project 1's task list by
\* project.add_task(1) before the percentage is asked; then it is 100.
C8_ScenarioLinked ==
    (ScenarioDone /\ "link" \in pc) =>
        (ScenarioIds /\ last.val[1] = 100 * last.val[2])

\* C8's case: every call of the scenario and the add_task made, nothing else,
\* and the percentage asked
C8_Witness ==
    /\ pc = {"user", "project", "task", "link", "assign", "complete"}
    /\ last.op = "Project.get_completion_percentage"
    /\ last.val = <<100, 1>>
    /\ projects[1].tasks = <<1>>

(***************************************************************************)
(* SpecSet: the validated setters.  A behaviour exercises one kind:        *)
(* entities are made by create and their fields are set, with values the   *)
(* setters accept and values they reject.                                  *)
(***************************************************************************)
NameValues == {StrEmpty, StrBlank, StrA, StrPadA, StrAl, StrBo}

EmailValues == {StrEmpty, StrBad, StrNoDot, StrNoAt, StrMail, StrPadMail}

TitleValues == {StrEmpty, StrBlank, StrLaunch, StrPadDoc}

StatusValues == VALID_STATUSES \cup {"bogus"}

DueDateValues == DateStrings \cup {"someday"}

InitSet ==
    /\ users = <<>> /\ userNextId = 1
    /\ projects = <<>> /\ projectNextId = 1
    /\ tasks = <<>> /\ taskNextId = 1
    /\ usersFile = FileAbsent /\ projectsFile = FileAbsent
    /\ tasksFile = FileAbsent
    /\ dataDir = "absent"
    /\ kind \in {"user", "project", "task"}
    /\ now = 5
    /\ pc = {}
    /\ last = Call("", "")

UserSetStep ==
    \/ userNextId <= MaxSet /\ UserCreate(StrAl, StrMail)
    \/ \E id \in UserIds, v \in NameValues : UserSetName(id, v)
    \/ \E id \in UserIds, v \in EmailValues : UserSetEmail(id, v)

ProjectSetStep ==
    \/ projectNextId <= MaxSet
           /\ ProjectCreate(StrLaunch, <<>>, "2099-01-01", 1)
    \/ \E id \in ProjectIds, v \in TitleValues : ProjectSetTitle(id, v)
    \/ \E id \in ProjectIds, v \in DueDateValues : ProjectSetDueDate(id, v)

TaskSetStep ==
    \/ taskNextId <= MaxSet /\ TaskCreate(StrDoc, <<>>, 1)
    \/ \E id \in TaskIds, v \in TitleValues : TaskSetTitle(id, v)
    \/ \E id \in TaskIds, v \in StatusValues : TaskSetStatus(id, v)
    \/ \E id \in TaskIds : TaskMarkComplete(id)

NextSet ==
    \/ kind = "user" /\ UserSetStep /\ UNCHANGED pc
    \/ kind = "project" /\ ProjectSetStep /\ UNCHANGED pc
    \/ kind = "task" /\ TaskSetStep /\ UNCHANGED pc

SpecSet == InitSet /\ [][NextSet]_vars

\* the value without the blanks before its first and after its last character
\* that is no blank
Trimmed(v) ==
    LET ns == {i \in 1..Len(v) : v[i] # " "}
    IN  IF ns = {} THEN <<>>
        ELSE SubSeq(v, CHOOSE a \in ns : \A b \in ns : a <= b,
                       CHOOSE a \in ns : \A b \in ns : b <= a)

\* C11, one call of a setter on the entity at position i of its registry: a
\* rejected value raises the validation error and leaves the registry as it
\* was, an accepted one raises nothing and changes that field alone, to stored
C11_Set(reg, regAfter, i, rejected, field, stored) ==
    IF rejected
    THEN last'.err = "ValueError" /\ regAfter = reg
    ELSE last'.err = "" /\ regAfter = [reg EXCEPT ![i][field] = stored]

C11_Steps ==
    /\ \A id \in UserIds, v \in NameValues :
           UserSetName(id, v) =>
               C11_Set(users, users', IndexOf(users, "user_id", id),
                       Len(Trimmed(v)) < 2, "name", Trimmed(v))
    /\ \A id \in UserIds, v \in EmailValues :
           UserSetEmail(id, v) =>
               C11_Set(users, users', IndexOf(users, "user_id", id),
                       (\A k \in 1..Len(v) : v[k] # "@")
                           \/ (\A k \in 1..Len(v) : v[k] # "."),
                       "email", Trimmed(v))
    /\ \A id \in ProjectIds, v \in TitleValues :
           ProjectSetTitle(id, v) =>
               C11_Set(projects, projects',
                       IndexOf(projects, "project_id", id),
                       Trimmed(v) = <<>>, "title", Trimmed(v))
    /\ \A id \in TaskIds, v \in TitleValues :
           TaskSetTitle(id, v) =>
               C11_Set(tasks, tasks', IndexOf(tasks, "task_id", id),
                       Trimmed(v) = <<>>, "title", Trimmed(v))
    /\ \A id \in TaskIds, v \in StatusValues :
           TaskSetStatus(id, v) =>
               C11_Set(tasks, tasks', IndexOf(tasks, "task_id", id),
                       v \notin {"pending", "in_progress", "completed"},
                       "status", v)
    /\ \A id \in ProjectIds, v \in DueDateValues :
           ProjectSetDueDate(id, v) =>
               C11_Set(projects, projects',
                       IndexOf(projects, "project_id", id),
                       v \notin DateStrings, "due_date", ParseDate(v))

\* C11: a validated setter that rejects its input raises a validation error
\* and leaves the field at its previous value: User.name for a value that is
\* empty or shorter than 2 characters after trimming, User.email for a value
\* without '@' or without '.', Project.title and Task.title for an empty or
\* whitespace-only value, Task.status for a value outside the three statuses,
\* Project.due_date for an unparsable string; an accepted name, email or title
\* is stored trimmed.
C11_RejectedSetterKeepsField == [][C11_Steps]_vars

\* C11's case: the name setter has just rejected a value on a user whose name
\* and email an earlier call had set, trimmed, and both are still in place
C11_Witness ==
    /\ last.op = "User.name" /\ last.err = "ValueError"
    /\ Len(users) = 2
    /\ users[2].name = <<"B", "o">>
    /\ users[2].email = StrMail
    /\ users[1].name = StrAl

\* C12, the flag: is_completed is true exactly when the status is completed
C12_Flag ==
    \A i \in 1..Len(tasks) :
        TaskIsCompleted(tasks[i]) <=> tasks[i].status = "completed"

\* C12, the steps: create makes a pending task that is not completed;
\* mark_complete, from any status, leaves the task completed; a status
\* outside the three raises and leaves every task as it was
C12_Steps ==
    /\ TaskCreate(StrDoc, <<>>, 1) =>
           /\ Len(tasks') = Len(tasks) + 1
           /\ tasks'[Len(tasks')].task_id = last'.id
           /\ tasks'[Len(tasks')].status = "pending"
           /\ ~ TaskIsCompleted(tasks'[Len(tasks')])
    /\ \A id \in TaskIds :
           TaskMarkComplete(id) =>
               LET i == IndexOf(tasks, "task_id", id)
               IN  /\ last'.err = ""
                   /\ tasks'[i].status = "completed"
                   /\ TaskIsCompleted(tasks'[i])
                   /\ tasks' = [tasks EXCEPT ![i].status = "completed"]
    /\ \A id \in TaskIds, v \in StatusValues :
           (v \notin {"pending", "in_progress", "completed"}
                /\ TaskSetStatus(id, v)) =>
               last'.err = "ValueError" /\ tasks' = tasks

\* C12: a task made by create has status pending and is_completed false; from
\* any status, mark_complete sets the status to completed and is_completed
\* becomes true; setting the status to a value outside {pending, in_progress,
\* completed} fails and leaves the status unchanged; is_completed is true
\* exactly when the status is completed.
C12_StatusTransitions == [] C12_Flag /\ [][C12_Steps]_vars

\* C12's case: the second task has just been marked complete, beside a task
\* that is still pending
C12_Witness ==
    /\ last.op = "Task.mark_complete"
    /\ Len(tasks) = 2
    /\ tasks[1].status = "pending" /\ ~ TaskIsCompleted(tasks[1])
    /\ tasks[2].status = "completed" /\ TaskIsCompleted(tasks[2])

(***************************************************************************)
(* SpecFind: the lookups.  A behaviour exercises one kind: entities are    *)
(* made by create, tasks are assigned and change status, and the find_by   *)
(* methods are called with arguments that match and arguments that do not. *)
(***************************************************************************)
\* the texts handed to find_by_name and find_by_title
FindTexts == {StrEmpty, StrA, StrAna, StrLaunch, <<"d", "o", "c">>}

UserFindStep ==
    \/ \E n \in {StrAl, StrAna} :
           userNextId <= MaxFind /\ UserCreate(n, StrMail)
    \/ \E id \in 1..(MaxFind + 1) :
           Lookup("User.find_by_id", id, <<>>, "",
                  IdSeq(UserFindById(users, id), "user_id"), "")
    \/ \E n \in FindTexts :
           Lookup("User.find_by_name", 0, n, "",
                  IdSeq(UserFindByName(users, n), "user_id"), "")

ProjectFindStep ==
    \/ \E t \in {StrLaunch, StrDoc}, u \in {1, 2} :
           projectNextId <= MaxFind /\ ProjectCreate(t, <<>>, "2099-01-01", u)
    \/ \E id \in 1..(MaxFind + 1) :
           Lookup("Project.find_by_id", id, <<>>, "",
                  IdSeq(ProjectFindById(projects, id), "project_id"), "")
    \/ \E u \in 1..3 :
           Lookup("Project.find_by_user", u, <<>>, "",
                  IdSeq(ProjectFindByUser(projects, u), "project_id"), "")
    \/ \E t \in FindTexts :
           Lookup("Project.find_by_title", 0, t, "",
                  IdSeq(ProjectFindByTitle(projects, t), "project_id"), "")

TaskFindStep ==
    \/ \E q \in {1, 2} : taskNextId <= MaxFind /\ TaskCreate(StrDoc, <<>>, q)
    \/ \E id \in TaskIds : TaskAssignUser(id, 1)
    \/ \E id \in TaskIds : TaskMarkComplete(id)
    \/ \E id \in 1..(MaxFind + 1) :
           Lookup("Task.find_by_id", id, <<>>, "",
                  IdSeq(TaskFindById(tasks, id), "task_id"), "")
    \/ \E q \in 1..3 :
           Lookup("Task.find_by_project", q, <<>>, "",
                  IdSeq(TaskFindByProject(tasks, q), "task_id"), "")
    \/ \E u \in 1..2 :
           Lookup("Task.find_by_user", u, <<>>, "",
                  IdSeq(TaskFindByUser(tasks, u), "task_id"), "")
    \/ \E v \in StatusValues :
           LET r == TaskFindByStatus(tasks, v)
           IN  Lookup("Task.find_by_status", 0, <<>>, v,
                      IdSeq(r.val, "task_id"), r.err)

NextFind ==
    \/ kind = "user" /\ UserFindStep /\ UNCHANGED pc
    \/ kind = "project" /\ ProjectFindStep /\ UNCHANGED pc
    \/ kind = "task" /\ TaskFindStep /\ UNCHANGED pc

SpecFind == InitSet /\ [][NextFind]_vars

\* the lookups
FindOps ==
    {"User.find_by_id", "User.find_by_name", "Project.find_by_id",
     "Project.find_by_user", "Project.find_by_title", "Task.find_by_id",
     "Task.find_by_project", "Task.find_by_user", "Task.find_by_status"}

\* the ids of the entities that match the last lookup's argument
FindMatches ==
    CASE last.op = "User.find_by_id" -> {id \in UserIds : id = last.id}
      [] last.op = "User.find_by_name" ->
             {users[i].user_id : i \in
                 {j \in 1..Len(users) :
                      IsSubstring(Lower(last.text), Lower(users[j].name))}}
      [] last.op = "Project.find_by_id" -> {id \in ProjectIds : id = last.id}
      [] last.op = "Project.find_by_user" ->
             {projects[i].project_id : i \in
                 {j \in 1..Len(projects) : projects[j].user_id = last.id}}
      [] last.op = "Project.find_by_title" ->
             {projects[i].project_id : i \in
                 {j \in 1..Len(projects) :
                      IsSubstring(Lower(last.text), Lower(projects[j].title))}}
      [] last.op = "Task.find_by_id" -> {id \in TaskIds : id = last.id}
      [] last.op = "Task.find_by_project" ->
             {tasks[i].task_id : i \in
                 {j \in 1..Len(tasks) : tasks[j].project_id = last.id}}
      [] last.op = "Task.find_by_user" ->
             {tasks[i].task_id : i \in
                 {j \in 1..Len(tasks) :
                      \E k \in 1..Len(tasks[j].assigned_users) :
                          tasks[j].assigned_users[k] = last.id}}
      [] last.op = "Task.find_by_status" ->
             {tasks[i].task_id : i \in
                 {j \in 1..Len(tasks) : tasks[j].status = last.status}}
      [] OTHER -> {}

\* the ids the last lookup returned
FindResult == {last.val[i] : i \in 1..Len(last.val)}

\* C13 as stated: a lookup miss is never an error: for every argument value,
\* find_by_id returns absent and every find_by_<attribute> returns an empty
\* sequence when nothing matches, without raising.
C13_MissNeverRaises ==
    last.op \in FindOps =>
        /\ last.err = ""
        /\ FindMatches = {} => last.val = <<>>

\* C13 amended: find_by_status raises the validation error for a status
\* outside {pending, in_progress, completed}; every other lookup raises
\* nothing and returns the entities that match, so nothing (absent, or an
\* empty sequence) when nothing matches.
C13_MissRaisesOnlyForBadStatus ==
    last.op \in FindOps =>
        IF last.op = "Task.find_by_status"
               /\ last.status \notin {"pending", "in_progress", "completed"}
        THEN last.err = "ValueError"
        ELSE /\ last.err = ""
             /\ FindResult = FindMatches
             /\ FindMatches = {} => last.val = <<>>

\* C13's case: find_by_status with a valid status that no task has, in a
\* registry that holds tasks, has returned the empty sequence
C13_Witness ==
    /\ last.op = "Task.find_by_status" /\ last.status = "in_progress"
    /\ Len(tasks) = 2
    /\ last.err = "" /\ last.val = <<>>

\* C14, create: in the state create returns in, find_by_id of the id it
\* returned gives the entity made from create's arguments, field by field,
\* and get_all holds that entity
C14_Create ==
    /\ \A n \in {StrAl, StrAna} :
           UserCreate(n, StrMail) =>
               LET e == [user_id |-> last'.id, name |-> n, email |-> StrMail,
                         created_at |-> now, projects |-> <<>>]
               IN  /\ last'.err = ""
                   /\ UserFindById(users', last'.id) = <<e>>
                   /\ \E i \in 1..Len(UserGetAll(users')) :
                          UserGetAll(users')[i] = e
    /\ \A t \in {StrLaunch, StrDoc}, u \in {1, 2} :
           ProjectCreate(t, <<>>, "2099-01-01", u) =>
               LET e == [project_id |-> last'.id, title |-> t,
                         description |-> <<>>, due_date |-> 9, user_id |-> u,
                         tasks |-> <<>>, created_at |-> now]
               IN  /\ last'.err = ""
                   /\ ProjectFindById(projects', last'.id) = <<e>>
                   /\ \E i \in 1..Len(ProjectGetAll(projects')) :
                          ProjectGetAll(projects')[i] = e
    /\ \A q \in {1, 2} :
           TaskCreate(StrDoc, <<>>, q) =>
               LET e == [task_id |-> last'.id, title |-> StrDoc,
                         description |-> <<>>, status |-> "pending",
                         project_id |-> q, assigned_users |-> <<>>,
                         created_at |-> now]
               IN  /\ last'.err = ""
                   /\ TaskFindById(tasks', last'.id) = <<e>>
                   /\ \E i \in 1..Len(TaskGetAll(tasks')) :
                          TaskGetAll(tasks')[i] = e

\* C14, find_by_id: called right after a create, with the id create
\* returned, it finds an entity, and that entity has this id
C14_Find ==
    \A k \in {"User", "Project", "Task"} :
        (last.op = k \o ".create" /\ last.err = ""
             /\ last'.op = k \o ".find_by_id" /\ last'.id = last.id) =>
            last'.val = <<last.id>>

\* C14: for all valid construction inputs, find_by_id(id) called immediately
\* after create returns the entity that create returned, equal in every
\* field, and that entity appears in get_all.
C14_FindAfterCreate == [][C14_Create /\ C14_Find]_vars

\* C14's case: find_by_id(2) right after the create that returned id 2 has
\* found the second project, which has the title and the owner create was given
C14_Witness ==
    /\ last.op = "Project.find_by_id" /\ last.after = "Project.create"
    /\ last.id = 2 /\ last.val = <<2>>
    /\ Len(projects) = 2
    /\ projects[2].title = StrDoc /\ projects[2].user_id = 2
    /\ projects[1].title = StrLaunch

\* C15, one call on the entity at position i of registry reg: the registry
\* differs from what it was in that entity's list alone
C15_OnlyList(reg, regAfter, i, list) ==
    regAfter = [reg EXCEPT ![i][list] = regAfter[i][list]]

C15_Steps ==
    /\ (UserAddProject(1, 1) \/ UserRemoveProject(1, 1)) =>
           /\ C15_OnlyList(users, users', IndexOf(users, "user_id", 1),
                           "projects")
           /\ UNCHANGED <<projects, tasks>>
           /\ UNCHANGED <<userNextId, projectNextId, taskNextId>>
    /\ (ProjectAddTask(1, 1) \/ ProjectRemoveTask(1, 1)) =>
           /\ C15_OnlyList(projects, projects',
                           IndexOf(projects, "project_id", 1), "tasks")
           /\ UNCHANGED <<users, tasks>>
           /\ UNCHANGED <<userNextId, projectNextId, taskNextId>>
    /\ (TaskAssignUser(1, 1) \/ TaskUnassignUser(1, 1)) =>
           /\ C15_OnlyList(tasks, tasks', IndexOf(tasks, "task_id", 1),
                           "assigned_users")
           /\ UNCHANGED <<users, projects>>
           /\ UNCHANGED <<userNextId, projectNextId, taskNextId>>

\* C15: the six relationship operations change only the relationship list of
\* the entity they are called on: every other field of that entity, every
\* other entity of the same kind, the other two registries and all three id
\* counters stay as they were.
C15_RelationshipFrame == [][C15_Steps]_vars

\* C15's case: user 1 has just been assigned to task 1 while user 1, a second
\* user, project 1 and a second task exist, and none of them names the other
C15_Witness ==
    /\ last.op = "Task.assign_user"
    /\ Len(tasks) = 2 /\ tasks[1].assigned_users = <<1>>
    /\ tasks[2].assigned_users = <<>>
    /\ Len(users) = 2 /\ users[1].projects = <<>>
    /\ Len(projects) >= 1 /\ projects[1].project_id = 1
    /\ projects[1].tasks = <<>>

(***************************************************************************)
(* The file handler, and the CLI's load_data and save_data over it.  The   *)
(* data directory and the file of the registry in focus start in any       *)
(* state, and a write can fail.                                            *)
(***************************************************************************)
\* entities of a kind created between loads
MaxFile == 2

FileNames == {"users.json", "projects.json", "tasks.json"}

FileOf(filename) ==
    CASE filename = "users.json" -> usersFile
      [] filename = "projects.json" -> projectsFile
      [] OTHER -> tasksFile

\* the three registries with their counters, and the data directory with
\* its three files
Regs ==
    [users |-> users, userNextId |-> userNextId, projects |-> projects,
     projectNextId |-> projectNextId, tasks |-> tasks,
     taskNextId |-> taskNextId]

Files ==
    [dir |-> dataDir, users |-> usersFile, projects |-> projectsFile,
     tasks |-> tasksFile]

SetRegs(w) ==
    /\ users' = w.users /\ userNextId' = w.userNextId
    /\ projects' = w.projects /\ projectNextId' = w.projectNextId
    /\ tasks' = w.tasks /\ taskNextId' = w.taskNextId

SetFiles(fs) ==
    /\ dataDir' = fs.dir /\ usersFile' = fs.users
    /\ projectsFile' = fs.projects /\ tasksFile' = fs.tasks

\* FileHandler.load_data(filename), called by itself
FileHandlerLoadData(filename) ==
    LET p    == FileGetFilePath(dataDir)
        data == FileLoadData(FileOf(filename))
    IN  /\ dataDir' = p.dir
        /\ last' = [Call("FileHandler.load_data", p.err)
                    EXCEPT !.n = IF p.err = "" THEN Len(data) ELSE 0,
                           !.val = IF p.err = "" THEN data ELSE <<>>,
                           !.file = filename, !.after = last.op]
        /\ UNCHANGED <<userVars, projectVars, taskVars, usersFile,
                       projectsFile, tasksFile, envVars>>

\* ProjectManagementCLI.load_data(): the three load_all calls in one try; the
\* first that raises ends it, and the registries loaded before it stay
CliLoadDataOn(w, fs) ==
    LET p == FileGetFilePath(fs.dir)
        u == UserLoadRecords(FileLoadData(fs.users))
        q == ProjectLoadRecords(FileLoadData(fs.projects))
        t == TaskLoadRecords(FileLoadData(fs.tasks))
        w1 == [w EXCEPT !.users = u.reg, !.userNextId = u.next]
        w2 == [w1 EXCEPT !.projects = q.reg, !.projectNextId = q.next]
        w3 == [w2 EXCEPT !.tasks = t.reg, !.taskNextId = t.next]
    IN  CASE p.err # "" -> [w |-> w, dir |-> p.dir, report |-> "Error loading data"]
          [] u.err # "" -> [w |-> w1, dir |-> p.dir, report |-> "Error loading data"]
          [] q.err # "" -> [w |-> w2, dir |-> p.dir, report |-> "Error loading data"]
          [] t.err # "" -> [w |-> w3, dir |-> p.dir, report |-> "Error loading data"]
          [] OTHER -> [w |-> w3, dir |-> p.dir, report |-> "Data loaded successfully"]

\* ProjectManagementCLI(): the constructor is load_data()
CliLoadData ==
    LET r == CliLoadDataOn(Regs, Files)
    IN  /\ SetRegs(r.w)
        /\ dataDir' = r.dir
        /\ last' = [Call("cli.load_data", "") EXCEPT !.report = r.report]
        /\ UNCHANGED <<usersFile, projectsFile, tasksFile, envVars>>

\* ProjectManagementCLI.save_data(): the three save_all calls in one try and
\* then the success message; save_all drops the boolean of
\* FileHandler.save_data, so only an exception (the directory) reaches it
CliSaveDataOn(w, fs, out) ==
    LET p == FileGetFilePath(fs.dir)
    IN  IF p.err # "" THEN [fs |-> fs, saved |-> "Error saving data"]
        ELSE [fs |-> [dir |-> p.dir,
                      users |-> FileSaveData(fs.users, UserSaveRecords(w.users),
                                             out.users).file,
                      projects |-> FileSaveData(fs.projects,
                                                ProjectSaveRecords(w.projects),
                                                out.projects).file,
                      tasks |-> FileSaveData(fs.tasks, TaskSaveRecords(w.tasks),
                                             out.tasks).file],
              saved |-> "Data saved successfully"]

\* the outcomes of the three writes of one save_data
SaveOutcomes == [{"users", "projects", "tasks"} -> WriteOutcomes]

Healthy == [f \in {"users", "projects", "tasks"} |-> "written"]

CliSaveData(out) ==
    LET r == CliSaveDataOn(Regs, Files, out)
    IN  /\ SetFiles(r.fs)
        /\ last' = [Call("cli.save_data", "") EXCEPT !.saved = r.saved, !.n = 1]
        /\ UNCHANGED <<userVars, projectVars, taskVars, envVars>>

InitFile ==
    /\ users = <<>> /\ userNextId = 1
    /\ projects = <<>> /\ projectNextId = 1
    /\ tasks = <<>> /\ taskNextId = 1
    /\ kind \in {"user", "project", "task"}
    /\ dataDir \in DirStates
    /\ usersFile \in
           (IF kind = "user" /\ dataDir = "present"
            THEN {FileAbsent, FileMalformed, <<>>, <<UserRec(1, <<>>)>>}
            ELSE {FileAbsent})
    /\ projectsFile \in
           (IF kind = "project" /\ dataDir = "present"
            THEN {FileAbsent, FileMalformed, <<>>,
                  <<ProjectRec(1, "2099-01-01", <<>>)>>}
            ELSE {FileAbsent})
    /\ tasksFile \in
           (IF kind = "task" /\ dataDir = "present"
            THEN {FileAbsent, FileMalformed, <<>>, <<TaskRec(1, "pending", <<>>)>>}
            ELSE {FileAbsent})
    /\ now = 5
    /\ pc = {}
    /\ last = Call("", "")

FileCreateStep ==
    \/ /\ kind = "user" /\ userNextId <= MaxFile
       /\ UserCreate(StrAl, StrMail)
    \/ /\ kind = "project" /\ projectNextId <= MaxFile
       /\ ProjectCreate(StrLaunch, StrEmpty, "2099-01-01", 1)
    \/ /\ kind = "task" /\ taskNextId <= MaxFile
       /\ TaskCreate(StrDoc, StrEmpty, 1)

FileLoadAllStep ==
    \/ kind = "user" /\ UserLoadAll
    \/ kind = "project" /\ ProjectLoadAll
    \/ kind = "task" /\ TaskLoadAll

FileSaveAllStep ==
    \E o \in WriteOutcomes :
        \/ kind = "user" /\ UserSaveAll(o)
        \/ kind = "project" /\ ProjectSaveAll(o)
        \/ kind = "task" /\ TaskSaveAll(o)

NextFile ==
    \/ (\E f \in FileNames : FileHandlerLoadData(f)) /\ UNCHANGED pc
    \/ CliLoadData /\ UNCHANGED pc
    \/ (\E out \in SaveOutcomes : CliSaveData(out)) /\ UNCHANGED pc
    \/ FileCreateStep /\ UNCHANGED pc
    \/ FileLoadAllStep /\ UNCHANGED pc
    \/ FileSaveAllStep /\ UNCHANGED pc

SpecFile == InitFile /\ [][NextFile]_vars

\* C20: FileHandler.load_data never raises: it returns an empty sequence when
\* the file is absent and when it holds malformed JSON, and it leaves the
\* files as they are, the data directory apart, which it may create.
C20_LoadDataNeverRaises ==
    [][last'.op = "FileHandler.load_data" =>
           /\ last'.err = ""
           /\ FileOf(last'.file) \in {FileAbsent, FileMalformed} => last'.n = 0
           /\ usersFile' = usersFile /\ projectsFile' = projectsFile
           /\ tasksFile' = tasksFile
           /\ dataDir' = dataDir \/ (dataDir = "absent" /\ dataDir' = "present")
      ]_vars

\* C17: when a write fails the save does not raise, and the failure reaches
\* the CLI: save_data reports "Data saved successfully" only if each of the
\* three files now holds the records of its registry.
C17_SaveFailureReported ==
    [][/\ (last'.op \in {"User.save_all", "Project.save_all", "Task.save_all"}
           /\ dataDir # "blocked") => last'.err = ""
       /\ last'.op = "cli.save_data" =>
              /\ last'.err = ""
              /\ last'.saved = "Data saved successfully" =>
                     /\ usersFile' = UserSaveRecords(users)
                     /\ projectsFile' = ProjectSaveRecords(projects)
                     /\ tasksFile' = TaskSaveRecords(tasks)
      ]_vars

(***************************************************************************)
(* The CLI commands add-user, add-project and add-task: each handler       *)
(* called on the CLI instance, and run(), which calls the handler of the   *)
(* command line and then save_data().  The disk is healthy here.           *)
(***************************************************************************)
\* entities created by the commands of one behaviour
MaxCli == 4

StrOne   == <<"1">>
StrTwo   == <<"2">>
StrShort == <<"@", ".">>

\* helpers.validate_email(email)
ValidateEmail(email) ==
    Contains(email, "@") /\ Contains(email, ".") /\ Len(email) >= 5

\* helpers.validate_date(date_str)
ValidateDate(date_str) == IsIsoFormat(date_str)

\* int(identifier): optional blanks around an optional sign and one or more
\* decimal digits, leading zeros allowed; the number in a one-element
\* sequence, <<>> when int raises ValueError
Digits == <<"0", "1", "2", "3", "4", "5", "6", "7", "8", "9">>

IsDigit(c) == \E d \in 1..Len(Digits) : Digits[d] = c

DigitValue(c) == (CHOOSE d \in 1..Len(Digits) : Digits[d] = c) - 1

RECURSIVE DigitsValue(_)
DigitsValue(s) ==
    IF s = <<>> THEN 0
    ELSE 10 * DigitsValue(SubSeq(s, 1, Len(s) - 1)) + DigitValue(s[Len(s)])

IntOf(s) ==
    LET t      == Strip(s)
        signed == t # <<>> /\ t[1] \in {"+", "-"}
        body   == IF signed THEN Tail(t) ELSE t
    IN  IF body # <<>> /\ \A i \in 1..Len(body) : IsDigit(body[i])
        THEN <<(IF signed /\ t[1] = "-" THEN -1 ELSE 1) * DigitsValue(body)>>
        ELSE <<>>

\* if x not in lst: lst.append(x)
ListAdd(lst, x) == IF InList(lst, x) THEN lst ELSE Append(lst, x)

\* ProjectManagementCLI._find_user(identifier) that looks at the names first
CliFindUserNameFirst(reg, identifier) ==
    LET n      == IntOf(identifier)
        byId   == IF n # <<>> THEN UserFindById(reg, n[1]) ELSE <<>>
        byName == UserFindByName(reg, identifier)
    IN  IF byName # <<>> THEN <<byName[1]>> ELSE byId

\* ProjectManagementCLI._find_user(identifier): the user with that id if the
\* identifier is a number and there is one, else the first user whose name
\* holds it; the user in a one-element sequence, <<>> for None
CliFindUser(reg, identifier) ==
    LET n      == IntOf(identifier)
        byId   == IF n # <<>> THEN UserFindById(reg, n[1]) ELSE <<>>
        byName == UserFindByName(reg, identifier)
    IN  IF byId # <<>> THEN byId
        ELSE IF byName # <<>> THEN <<byName[1]>> ELSE <<>>

\* ProjectManagementCLI._find_project(identifier)
CliFindProject(reg, identifier) ==
    LET n       == IntOf(identifier)
        byId    == IF n # <<>> THEN ProjectFindById(reg, n[1]) ELSE <<>>
        byTitle == ProjectFindByTitle(reg, identifier)
    IN  IF byId # <<>> THEN byId
        ELSE IF byTitle # <<>> THEN <<byTitle[1]>> ELSE <<>>

\* what a handler leaves: the registries, the message it printed, the id of
\* the entity it created (0 for none) and the exception that left it
Handled(w, report, id, err) == [w |-> w, report |-> report, id |-> id, err |-> err]

\* ProjectManagementCLI.add_user(args) that creates the user before it
\* validates the email
CliAddUserOnCreateFirst(w, name, email) ==
    LET r == UserNew(w.users, w.userNextId, name, email, 0, 0, <<>>)
        v == [w EXCEPT !.users = r.reg, !.userNextId = r.next]
    IN  IF ~ ValidateEmail(email) THEN Handled(v, "Invalid email format", 0, "")
        ELSE Handled(v, "User created successfully", r.ent.user_id, r.err)

\* ProjectManagementCLI.add_user(args)
CliAddUserOn(w, name, email) ==
    IF ~ ValidateEmail(email) THEN Handled(w, "Invalid email format", 0, "")
    ELSE LET r == UserNew(w.users, w.userNextId, name, email, 0, 0, <<>>)
         IN  Handled([w EXCEPT !.users = r.reg, !.userNextId = r.next],
                     "User created successfully", r.ent.user_id, r.err)

\* ProjectManagementCLI.add_project(args) without user.add_project
CliAddProjectOnNoLink(w, user, title, description, due_date) ==
    LET u == CliFindUser(w.users, user)
    IN  IF u = <<>> THEN Handled(w, "User not found", 0, "")
        ELSE IF ~ ValidateDate(due_date)
        THEN Handled(w, "Invalid date format", 0, "")
        ELSE LET r == ProjectNew(w.projects, w.projectNextId, title,
                                 description, due_date, u[1].user_id, 0, <<>>, 0)
                 v == [w EXCEPT !.projects = r.reg, !.projectNextId = r.next]
             IN  IF r.err # "" THEN Handled(v, "", 0, r.err)
                 ELSE Handled(v, "Project created successfully",
                              r.ent.project_id, "")

\* ProjectManagementCLI.add_project(args)
CliAddProjectOn(w, user, title, description, due_date) ==
    LET u == CliFindUser(w.users, user)
    IN  IF u = <<>> THEN Handled(w, "User not found", 0, "")
        ELSE IF ~ ValidateDate(due_date)
        THEN Handled(w, "Invalid date format", 0, "")
        ELSE LET r == ProjectNew(w.projects, w.projectNextId, title,
                                 description, due_date, u[1].user_id, 0, <<>>, 0)
                 i == IndexOf(w.users, "user_id", u[1].user_id)
                 v == [w EXCEPT !.projects = r.reg, !.projectNextId = r.next]
             IN  IF r.err # "" THEN Handled(v, "", 0, r.err)
                 ELSE Handled([v EXCEPT !.users[i].projects =
                                            ListAdd(@, r.ent.project_id)],
                              "Project created successfully",
                              r.ent.project_id, "")

\* the loop of add_task over args.assign: each assignee found is assigned
RECURSIVE CliAssignLoop(_, _, _)
CliAssignLoop(reg, assign, lst) ==
    IF assign = <<>> THEN lst
    ELSE LET u == CliFindUser(reg, Head(assign))
         IN  CliAssignLoop(reg, Tail(assign),
                           IF u = <<>> THEN lst ELSE ListAdd(lst, u[1].user_id))

\* ProjectManagementCLI.add_task(args)
CliAddTaskOn(w, project, title, description, assign) ==
    LET q == CliFindProject(w.projects, project)
    IN  IF q = <<>> THEN Handled(w, "Project not found", 0, "")
        ELSE LET r == TaskNew(w.tasks, w.taskNextId, title, description,
                              q[1].project_id, 0, "pending", <<>>, 0)
                 j == IndexOf(w.projects, "project_id", q[1].project_id)
                 k == IndexOf(r.reg, "task_id", r.ent.task_id)
             IN  Handled([w EXCEPT
                            !.tasks = [r.reg EXCEPT ![k].assigned_users =
                                          CliAssignLoop(w.users, assign, @)],
                            !.taskNextId = r.next,
                            !.projects[j].tasks = ListAdd(@, r.ent.task_id)],
                         "Task created successfully", r.ent.task_id, r.err)

\* a handler called on the CLI instance, as the tests call it: op names the
\* method, text and date are the identifying arguments
CliCall(op, text, date, r) ==
    /\ SetRegs(r.w)
    /\ last' = [Call(op, r.err) EXCEPT !.id = r.id, !.report = r.report,
                                       !.text = text, !.status = date]
    /\ UNCHANGED <<fileVars, envVars>>

\* ProjectManagementCLI.run() on the command line of this handler: the
\* handler, and then save_data() unless the handler raised (run prints the
\* error and raises nothing)
CliRun(op, text, date, r, out) ==
    LET s == CliSaveDataOn(r.w, Files, out)
    IN  /\ SetRegs(r.w)
        /\ IF r.err = "" THEN SetFiles(s.fs) ELSE UNCHANGED fileVars
        /\ last' = [Call(op, "")
                    EXCEPT !.id = r.id, !.text = text, !.status = date,
                           !.report = IF r.err = "" THEN r.report ELSE "Error",
                           !.n = IF r.err = "" THEN 1 ELSE 0,
                           !.saved = IF r.err = "" THEN s.saved ELSE ""]
        /\ UNCHANGED envVars

\* ProjectManagementCLI.run() on a command line without a command: the help
\* is printed and nothing is saved
CliRunHelp ==
    /\ last' = Call("run", "")
    /\ UNCHANGED <<userVars, projectVars, taskVars, fileVars, envVars>>

\* the entities created so far in this process
CliCreated == userNextId + projectNextId + taskNextId - 3

CliNames == {StrAl, StrTwo}

CliEmails == {StrMail, StrBad, StrShort}

CliUserIdentifiers == {StrOne, StrTwo, StrA, StrBad}

CliProjectIdentifiers == {StrOne, StrTwo, StrA, StrBad}

CliDueDates == {"2099-01-01", "Jan 1 2099", "someday"}

CliAssigns == {<<>>, <<StrOne, StrBad>>}

CliAddUserStep(run) ==
    /\ CliCreated < MaxCli
    /\ \E name \in CliNames, email \in CliEmails :
           LET r == CliAddUserOn(Regs, name, email)
           IN  IF run THEN CliRun("run add-user", email, "", r, Healthy)
               ELSE CliCall("cli.add_user", email, "", r)

CliAddProjectStep(run) ==
    /\ CliCreated < MaxCli
    /\ \E user \in CliUserIdentifiers, due_date \in CliDueDates :
           LET r == CliAddProjectOn(Regs, user, StrLaunch, StrEmpty, due_date)
           IN  IF run THEN CliRun("run add-project", user, due_date, r, Healthy)
               ELSE CliCall("cli.add_project", user, due_date, r)

CliAddTaskStep(run) ==
    /\ CliCreated < MaxCli
    /\ \E project \in CliProjectIdentifiers, assign \in CliAssigns :
           LET r == CliAddTaskOn(Regs, project, StrDoc, StrEmpty, assign)
           IN  IF run THEN CliRun("run add-task", project, "", r, Healthy)
               ELSE CliCall("cli.add_task", project, "", r)

NextCli ==
    \/ CliAddUserStep(FALSE) /\ UNCHANGED pc
    \/ CliAddProjectStep(FALSE) /\ UNCHANGED pc
    \/ CliAddTaskStep(FALSE) /\ UNCHANGED pc
    \/ CliAddUserStep(TRUE) /\ UNCHANGED pc
    \/ CliAddProjectStep(TRUE) /\ UNCHANGED pc
    \/ CliAddTaskStep(TRUE) /\ UNCHANGED pc
    \/ CliRunHelp /\ UNCHANGED pc
    \/ CliLoadData /\ UNCHANGED pc

SpecCli == InitEmpty /\ [][NextCli]_vars

\* C16: executing a data-modifying command such as add-user on a CLI instance
\* results in save_data being invoked exactly once, and the three registries
\* are flushed to their files once the command is done.
C16_Commands ==
    {"cli.add_user", "cli.add_project", "cli.add_task",
     "run add-user", "run add-project", "run add-task"}

C16_SavedOnceAfterCommand ==
    [][(last'.op \in C16_Commands /\ last'.id # 0) =>
           /\ last'.n = 1
           /\ usersFile' = UserSaveRecords(users')
           /\ projectsFile' = ProjectSaveRecords(projects')
           /\ tasksFile' = TaskSaveRecords(tasks')
      ]_vars

\* C18: a successful add-project creates exactly one project, owned by the
\* resolved user, and appends its id to that user's projects; a successful
\* add-task creates exactly one task, of the resolved project, and appends
\* its id to that project's tasks.
C18_Created(reg, before, f) ==
    /\ Len(reg) = Len(before) + 1
    /\ SubSeq(reg, 1, Len(before)) = before
    /\ reg[Len(reg)][f] = last'.id
    /\ last'.id \notin Ids(before, f)

C18_AddProject ==
    LET u == CliFindUser(users, last'.text)
        i == IndexOf(users, "user_id", u[1].user_id)
    IN  /\ u # <<>>
        /\ C18_Created(projects', projects, "project_id")
        /\ projects'[Len(projects')].user_id = u[1].user_id
        /\ users' = [users EXCEPT ![i].projects = Append(@, last'.id)]
        /\ UNCHANGED <<userNextId, taskVars>>

C18_AddTask ==
    LET q == CliFindProject(projects, last'.text)
        j == IndexOf(projects, "project_id", q[1].project_id)
    IN  /\ q # <<>>
        /\ C18_Created(tasks', tasks, "task_id")
        /\ tasks'[Len(tasks')].project_id = q[1].project_id
        /\ projects' = [projects EXCEPT ![j].tasks = Append(@, last'.id)]
        /\ UNCHANGED <<projectNextId, userVars>>

C18_CommandLinksOwner ==
    [][/\ (last'.op \in {"cli.add_project", "run add-project"}
           /\ last'.report = "Project created successfully") => C18_AddProject
       /\ (last'.op \in {"cli.add_task", "run add-task"}
           /\ last'.report = "Task created successfully") => C18_AddTask
      ]_vars

\* a task was added to the project found by a part of its title, and the
\* project belongs to the second user, whose name is "2"
C18_Witness ==
    /\ last.op = "run add-task" /\ last.report = "Task created successfully"
    /\ last.text = StrA /\ last.id = 1
    /\ Len(tasks) = 1 /\ tasks[1].project_id = 1
    /\ Len(projects) = 1 /\ projects[1].tasks = <<1>>
    /\ projects[1].user_id = 2
    /\ Len(users) = 2 /\ users[2].projects = <<1>> /\ users[2].name = StrTwo
    /\ users[1].projects = <<>>

\* C19: a rejected command leaves the three registries and their counters
\* as they were: add-user with an invalid email, add-project with an unknown
\* user or an invalid due date, add-task with an unknown project.
C19_Rejected ==
    \/ /\ last'.op \in {"cli.add_user", "run add-user"}
       /\ ~ ValidateEmail(last'.text) \/ last'.report = "Invalid email format"
    \/ /\ last'.op \in {"cli.add_project", "run add-project"}
       /\ \/ CliFindUser(users, last'.text) = <<>>
          \/ ~ ValidateDate(last'.status)
          \/ last'.report \in {"User not found", "Invalid date format"}
    \/ /\ last'.op \in {"cli.add_task", "run add-task"}
       /\ \/ CliFindProject(projects, last'.text) = <<>>
          \/ last'.report = "Project not found"

JsonRec(id, name) == [id |-> id, name |-> name]

JsonRecords ==
    { <<>>,
      <<JsonRec(1, StrA)>>,
      <<JsonRec(1, StrA), JsonRec(2, StrAl)>>,
      <<JsonRec(2, StrAl), JsonRec(1, StrA)>> }

\* FileHandler.save_data(filename, data), called by itself: n is 1 when it
\* returned True
FileHandlerSaveData(filename, data, outcome) ==
    LET p == FileGetFilePath(dataDir)
        w == FileSaveData(FileOf(filename), data, outcome)
        f == IF p.err = "" THEN w.file ELSE FileOf(filename)
    IN  /\ dataDir' = p.dir
        /\ usersFile' = IF filename = "users.json" THEN f ELSE usersFile
        /\ projectsFile' = IF filename = "projects.json" THEN f
                           ELSE projectsFile
        /\ tasksFile' = IF filename = "tasks.json" THEN f ELSE tasksFile
        /\ last' = [Call("FileHandler.save_data", p.err)
                    EXCEPT !.n = IF p.err = "" /\ w.ok THEN 1 ELSE 0,
                           !.val = data, !.file = filename,
                           !.after = last.op]
        /\ UNCHANGED <<userVars, projectVars, taskVars, envVars>>

InitJson ==
    /\ users = <<>> /\ userNextId = 1
    /\ projects = <<>> /\ projectNextId = 1
    /\ tasks = <<>> /\ taskNextId = 1
    /\ kind = "all"
    /\ dataDir \in {"present", "absent"}
    /\ usersFile \in
           (IF dataDir = "present"
            THEN {FileAbsent, FileMalformed} \cup JsonRecords
            ELSE {FileAbsent})
    /\ projectsFile \in
           (IF dataDir = "present" THEN {FileAbsent, <<JsonRec(2, StrAl)>>}
            ELSE {FileAbsent})
    /\ tasksFile = FileAbsent
    /\ now = 5
    /\ pc = {}
    /\ last = Call("", "")

NextJson ==
    \/ (\E f \in {"users.json", "projects.json"}, data \in JsonRecords :
            FileHandlerSaveData(f, data, "written")) /\ UNCHANGED pc
    \/ (\E f \in {"users.json", "projects.json"} : FileHandlerLoadData(f))
           /\ UNCHANGED pc

SpecJson == InitJson /\ [][NextJson]_vars

MaxNow == 10

\* project.is_overdue with >= in place of >
ProjectIsOverdueNotStrict(q, t) == t >= q.due_date

\* project.is_overdue at time t
ProjectIsOverdue(q, t) == t > q.due_date

\* an access to project.is_overdue: n is 1 for True
ProjectIsOverdueGet(id) ==
    LET i == IndexOf(projects, "project_id", id)
    IN  /\ i # 0
        /\ last' = [Call("Project.is_overdue", "")
                    EXCEPT !.id = id,
                           !.n = IF ProjectIsOverdue(projects[i], now) THEN 1
                                 ELSE 0]
        /\ UNCHANGED <<userVars, projectVars, taskVars, fileVars, envVars>>

\* datetime.now() moves on
Tick ==
    /\ now < MaxNow
    /\ now' = now + 1
    /\ UNCHANGED <<userVars, projectVars, taskVars, fileVars, kind, last>>

InitClock ==
    /\ users = <<>> /\ userNextId = 1
    /\ projects = <<>> /\ projectNextId = 1
    /\ tasks = <<>> /\ taskNextId = 1
    /\ usersFile = FileAbsent /\ projectsFile = FileAbsent
    /\ tasksFile = FileAbsent
    /\ dataDir = "absent"
    /\ now = 0
    /\ kind = "all"
    /\ pc = {}
    /\ last = Call("", "")

NextClock ==
    \/ /\ projectNextId <= 1
       /\ \E d \in DateStrings : ProjectCreate(StrLaunch, <<>>, d, 1)
       /\ UNCHANGED pc
    \/ (\E id \in ProjectIds, d \in DueDateValues : ProjectSetDueDate(id, d))
           /\ UNCHANGED pc
    \/ (\E id \in ProjectIds : ProjectIsOverdueGet(id)) /\ UNCHANGED pc
    \/ Tick /\ UNCHANGED pc

SpecClock == InitClock /\ [][NextClock]_vars

MaxReg == 2

UserRegStep ==
    \/ \E n \in {StrAl, StrAna} : userNextId <= MaxReg /\ UserCreate(n, StrMail)
    \/ \E id \in 1..MaxReg : UserFromDict(UserRec(id, <<>>))
    \/ Lookup("User.get_all", 0, <<>>, "", IdSeq(UserGetAll(users), "user_id"), "")
    \/ UserSaveAll("written")

ProjectRegStep ==
    \/ \E t \in {StrLaunch, StrDoc} :
           projectNextId <= MaxReg /\ ProjectCreate(t, <<>>, "2099-01-01", 1)
    \/ \E id \in 1..MaxReg : ProjectFromDict(ProjectRec(id, "2099-01-01", <<>>))
    \/ Lookup("Project.get_all", 0, <<>>, "",
              IdSeq(ProjectGetAll(projects), "project_id"), "")
    \/ ProjectSaveAll("written")

TaskRegStep ==
    \/ \E t \in {StrDoc, StrLaunch} :
           taskNextId <= MaxReg /\ TaskCreate(t, <<>>, 1)
    \/ \E id \in 1..MaxReg : TaskFromDict(TaskRec(id, "pending", <<>>))
    \/ Lookup("Task.get_all", 0, <<>>, "", IdSeq(TaskGetAll(tasks), "task_id"), "")
    \/ TaskSaveAll("written")

NextReg ==
    \/ kind = "user" /\ UserRegStep /\ UNCHANGED pc
    \/ kind = "project" /\ ProjectRegStep /\ UNCHANGED pc
    \/ kind = "task" /\ TaskRegStep /\ UNCHANGED pc

SpecReg == InitSet /\ [][NextReg]_vars

\* the ids of the registry in focus, in its order, and those of its file
RegIds ==
    CASE kind = "user" -> IdSeq(users, "user_id")
      [] kind = "project" -> IdSeq(projects, "project_id")
      [] OTHER -> IdSeq(tasks, "task_id")

RegFileIds ==
    CASE kind = "user" -> IdSeq(FileLoadData(usersFile), "user_id")
      [] kind = "project" -> IdSeq(FileLoadData(projectsFile), "project_id")
      [] OTHER -> IdSeq(FileLoadData(tasksFile), "task_id")

RegInserts ==
    {"User.create", "Project.create", "Task.create",
     "User.from_dict", "Project.from_dict", "Task.from_dict"}

\* C23: get_all returns the live entities in the order in which their ids
\* were first inserted, save_all writes the records in that order, and an
\* insertion under an id that is present keeps that id's position.
C23_InsertionOrder ==
    [][/\ (last'.op \in RegInserts /\ last'.err = "" /\ last' # last) =>
              RegIds' = IF InList(RegIds, last'.id) THEN RegIds
                        ELSE Append(RegIds, last'.id)
       /\ last'.op \in {"User.get_all", "Project.get_all", "Task.get_all"} =>
              last'.val = RegIds /\ RegIds' = RegIds
       /\ last'.op \in {"User.save_all", "Project.save_all", "Task.save_all"} =>
              RegFileIds' = RegIds /\ RegIds' = RegIds
      ]_vars

\* id 1 was inserted again after ids 2 and 1, and get_all still gives 2, 1
C23_Witness ==
    /\ last.op \in {"User.get_all", "Project.get_all", "Task.get_all"}
    /\ last.val = <<2, 1>>
    /\ last.after \in {"User.from_dict", "Project.from_dict", "Task.from_dict"}
    /\ RegFileIds = <<2>>

\* C28: in every reachable state create returns an id that is not a key of
\* the registry, so it replaces no entry and the registry grows by one.
C28_CreateNeverReplaces ==
    [][(last'.op \in {"User.create", "Project.create", "Task.create"}
        /\ last'.err = "") =>
           /\ ~ InList(RegIds, last'.id)
           /\ Len(RegIds') = Len(RegIds) + 1
      ]_vars

(***************************************************************************)
(* The lookups by attribute, under SpecFind.                               *)
(***************************************************************************)
\* the lookups by attribute
AttrFindOps ==
    {"User.find_by_name", "Project.find_by_title", "Project.find_by_user",
     "Task.find_by_project", "Task.find_by_user", "Task.find_by_status"}

\* s contains q at some position, letters compared without regard to case
ContainsNoCase(q, s) ==
    \E i \in 0..(Len(s) - Len(q)) :
        \A k \in 1..Len(q) : LowerChar(s[i + k]) = LowerChar(q[k])

\* the entity e is one the lookup c asks for
AttrMatch(c, e) ==
    CASE c.op = "User.find_by_name" -> ContainsNoCase(c.text, e.name)
      [] c.op = "Project.find_by_title" -> ContainsNoCase(c.text, e.title)
      [] c.op = "Project.find_by_user" -> e.user_id = c.id
      [] c.op = "Task.find_by_project" -> e.project_id = c.id
      [] c.op = "Task.find_by_user" ->
             \E k \in 1..Len(e.assigned_users) : e.assigned_users[k] = c.id
      [] c.op = "Task.find_by_status" -> e.status = c.status
      [] OTHER -> FALSE

\* the ids of the entities the lookup c asks for, in the registry's order
AttrExpected(c) ==
    CASE c.op = "User.find_by_name" ->
             IdSeq(SelectSeq(users, LAMBDA e : AttrMatch(c, e)), "user_id")
      [] c.op \in {"Project.find_by_title", "Project.find_by_user"} ->
             IdSeq(SelectSeq(projects, LAMBDA e : AttrMatch(c, e)),
                   "project_id")
      [] OTHER -> IdSeq(SelectSeq(tasks, LAMBDA e : AttrMatch(c, e)), "task_id")

MaxResolve == 3

StrA02  == <<"A", "0", "2">>
StrZero2 == <<"0", "2">>
StrPad2 == <<" ", "2">>
StrThree == <<"3">>

\* the identifiers handed to the resolvers
ResolveIdentifiers == {StrOne, StrTwo, StrZero2, StrPad2, StrThree, StrA, StrBad}

UserResolveStep ==
    \/ \E n \in {StrAl, StrA02} :
           userNextId <= MaxResolve /\ UserCreate(n, StrMail)
    \/ \E s \in ResolveIdentifiers :
           Lookup("cli._find_user", 0, s, "",
                  IdSeq(CliFindUser(users, s), "user_id"), "")

ProjectResolveStep ==
    \/ \E t \in {StrAl, StrA02} :
           projectNextId <= MaxResolve /\ ProjectCreate(t, <<>>, "2099-01-01", 1)
    \/ \E s \in ResolveIdentifiers :
           Lookup("cli._find_project", 0, s, "",
                  IdSeq(CliFindProject(projects, s), "project_id"), "")

NextResolve ==
    \/ kind = "user" /\ UserResolveStep /\ UNCHANGED pc
    \/ kind = "project" /\ ProjectResolveStep /\ UNCHANGED pc

InitResolve == InitSet /\ kind \in {"user", "project"}

SpecResolve == InitResolve /\ [][NextResolve]_vars

\* the decimal form of a positive number
RECURSIVE Decimal(_)
Decimal(n) ==
    IF n < 10 THEN <<Digits[n + 1]>>
    ELSE Decimal(n \div 10) \o <<Digits[(n % 10) + 1]>>

\* the ids and the names (titles) of the registry the last resolver call
\* looked in, in its order
ResolveIds ==
    IF last.op = "cli._find_user" THEN IdSeq(users, "user_id")
    ELSE IdSeq(projects, "project_id")

ResolveNames ==
    IF last.op = "cli._find_user" THEN IdSeq(users, "name")
    ELSE IdSeq(projects, "title")

\* the id of the first entity whose name holds the identifier, letters
\* compared without regard to case; <<>> when there is none
ResolveByName ==
    LET hits == {i \in 1..Len(ResolveNames) :
                     ContainsNoCase(last.text, ResolveNames[i])}
    IN  IF hits = {} THEN <<>>
        ELSE <<ResolveIds[CHOOSE i \in hits : \A j \in hits : i <= j]>>

\* C25 as stated: the resolvers return the entity whose id the identifier is
\* the decimal form of when there is one, otherwise the first entity in
\* insertion order whose name or title contains the identifier without regard
\* to case, and nothing when neither matches.
C25_IdFirstThenName ==
    last.op \in {"cli._find_user", "cli._find_project"} =>
        IF \E i \in 1..Len(ResolveIds) : last.text = Decimal(ResolveIds[i])
        THEN last.val = <<CHOOSE id \in {ResolveIds[i] : i \in 1..Len(ResolveIds)} :
                              last.text = Decimal(id)>>
        ELSE last.val = ResolveByName

\* C25 amended: the resolvers return the entity whose id is int(identifier)
\* when the identifier is read by int as a number (blanks, a sign and leading
\* zeros allowed) and that id is present, otherwise the first entity in
\* insertion order whose name or title contains the identifier without regard
\* to case, and nothing when neither matches.
C25_IntFirstThenName ==
    last.op \in {"cli._find_user", "cli._find_project"} =>
        LET n == IntOf(last.text)
        IN  IF n # <<>> /\ \E i \in 1..Len(ResolveIds) : ResolveIds[i] = n[1]
            THEN last.val = n
            ELSE last.val = ResolveByName

\* _find_user("2") has returned the second user although the first one's name
\* holds a 2, and the registry of users is the one it was given
C25_Witness ==
    /\ last.op = "cli._find_user" /\ last.text = StrTwo
    /\ Len(users) = 2 /\ users[1].name = StrA02
    /\ last.val = <<2>>

(***************************************************************************)
(* SpecLinks: the CLI's commands that create and change entities, run one  *)
(* after the other from empty registries: add-user, add-project, add-task, *)
(* assign-task, update-task and complete-task.  The answer given to        *)
(* confirm_action is "yes" or "no"; the call's record keeps the task id    *)
(* given in id and, for assign-task and complete-task, the answer in       *)
(* status.                                                                 *)
(***************************************************************************)
MaxLinks == 4

\* task.status = value on the task at index i of the registry
CliSetStatus(w, i, value) == [w EXCEPT !.tasks[i].status = value]

\* ProjectManagementCLI.update_task(args)
CliUpdateTaskOn(w, task_id, status) ==
    LET i == IndexOf(w.tasks, "task_id", task_id)
    IN  IF i = 0 THEN Handled(w, "Task not found", task_id, "")
        ELSE IF status \notin VALID_STATUSES
        THEN Handled(w, "", task_id, "ValueError")
        ELSE Handled(CliSetStatus(w, i, status), "Task status updated",
                     task_id, "")

\* ProjectManagementCLI.complete_task(args) that asks nothing and flips the
\* status
CliCompleteTaskOnNoAsk(w, task_id, confirm) ==
    LET i == IndexOf(w.tasks, "task_id", task_id)
    IN  IF i = 0 THEN Handled(w, "Task not found", task_id, "")
        ELSE IF TaskIsCompleted(w.tasks[i])
        THEN Handled(CliSetStatus(w, i, "pending"), "Task marked as pending",
                     task_id, "")
        ELSE Handled(CliSetStatus(w, i, "completed"),
                     "Task marked as completed", task_id, "")

\* ProjectManagementCLI.complete_task(args)
CliCompleteTaskOn(w, task_id, confirm) ==
    LET i == IndexOf(w.tasks, "task_id", task_id)
    IN  IF i = 0 THEN Handled(w, "Task not found", task_id, "")
        ELSE IF TaskIsCompleted(w.tasks[i])
        THEN IF confirm # "yes"
             THEN Handled(w, "Task is already completed", task_id, "")
             ELSE Handled(CliSetStatus(w, i, "pending"),
                          "Task marked as pending", task_id, "")
        ELSE Handled(CliSetStatus(w, i, "completed"),
                     "Task marked as completed", task_id, "")

\* ProjectManagementCLI.assign_task(args) that takes the identifier's number
\* for the user's id without looking the user up
CliAssignTaskOnUnresolved(w, task_id, user, confirm) ==
    LET i == IndexOf(w.tasks, "task_id", task_id)
        n == IntOf(user)
    IN  IF i = 0 THEN Handled(w, "Task not found", task_id, "")
        ELSE IF n = <<>> THEN Handled(w, "User not found", task_id, "")
        ELSE IF InList(w.tasks[i].assigned_users, n[1])
        THEN IF confirm = "yes"
             THEN Handled([w EXCEPT !.tasks[i].assigned_users =
                               ListRemove(@, n[1])],
                          "Task unassigned", task_id, "")
             ELSE Handled(w, "Task already assigned", task_id, "")
        ELSE Handled([w EXCEPT !.tasks[i].assigned_users = Append(@, n[1])],
                     "Task assigned", task_id, "")

\* ProjectManagementCLI.assign_task(args)
CliAssignTaskOn(w, task_id, user, confirm) ==
    LET i == IndexOf(w.tasks, "task_id", task_id)
        u == CliFindUser(w.users, user)
    IN  IF i = 0 THEN Handled(w, "Task not found", task_id, "")
        ELSE IF u = <<>> THEN Handled(w, "User not found", task_id, "")
        ELSE IF InList(w.tasks[i].assigned_users, u[1].user_id)
        THEN IF confirm = "yes"
             THEN Handled([w EXCEPT !.tasks[i].assigned_users =
                               ListRemove(@, u[1].user_id)],
                          "Task unassigned", task_id, "")
             ELSE Handled(w, "Task already assigned", task_id, "")
        ELSE Handled([w EXCEPT !.tasks[i].assigned_users =
                          Append(@, u[1].user_id)],
                     "Task assigned", task_id, "")

\* the answers to confirm_action, the identifiers and the task ids given
Answers == {"yes", "no"}

LinkIdentifiers == {StrOne, StrTwo, StrBad}

LinkTaskIds == {1, 2}

LinksAddUserStep ==
    /\ CliCreated < MaxLinks
    /\ \E email \in {StrMail, StrBad} :
           CliRun("run add-user", email, "",
                  CliAddUserOn(Regs, StrAl, email), Healthy)

LinksAddProjectStep ==
    /\ CliCreated < MaxLinks
    /\ \E user \in LinkIdentifiers, due_date \in {"2099-01-01", "someday"} :
           CliRun("run add-project", user, due_date,
                  CliAddProjectOn(Regs, user, StrLaunch, StrEmpty, due_date),
                  Healthy)

LinksAddTaskStep ==
    /\ CliCreated < MaxLinks
    /\ \E project \in LinkIdentifiers, assign \in CliAssigns :
           CliRun("run add-task", project, "",
                  CliAddTaskOn(Regs, project, StrDoc, StrEmpty, assign),
                  Healthy)

LinksAssignTaskStep ==
    \E task_id \in LinkTaskIds, user \in LinkIdentifiers, confirm \in Answers :
        CliRun("run assign-task", user, confirm,
               CliAssignTaskOn(Regs, task_id, user, confirm), Healthy)

LinksUpdateTaskStep ==
    \E task_id \in LinkTaskIds, status \in VALID_STATUSES :
        CliRun("run update-task", <<>>, status,
               CliUpdateTaskOn(Regs, task_id, status), Healthy)

LinksCompleteTaskStep ==
    \E task_id \in LinkTaskIds, confirm \in Answers :
        CliRun("run complete-task", <<>>, confirm,
               CliCompleteTaskOn(Regs, task_id, confirm), Healthy)

NextLinks ==
    \/ LinksAddUserStep /\ UNCHANGED pc
    \/ LinksAddProjectStep /\ UNCHANGED pc
    \/ LinksAddTaskStep /\ UNCHANGED pc
    \/ LinksAssignTaskStep /\ UNCHANGED pc
    \/ LinksUpdateTaskStep /\ UNCHANGED pc
    \/ LinksCompleteTaskStep /\ UNCHANGED pc

SpecLinks == InitEmpty /\ [][NextLinks]_vars

\* C26: complete-task on an existing task that is not completed sets its
\* status to completed; on a completed task it sets the status to pending
\* when the user confirms and leaves it as it is when the user declines; an
\* unknown task id changes nothing.
C26_CompleteTask ==
    [][last'.op = "run complete-task" =>
           LET i == IndexOf(tasks, "task_id", last'.id)
           IN  /\ tasks' =
                     IF i = 0 THEN tasks
                     ELSE IF tasks[i].status # "completed"
                     THEN [tasks EXCEPT ![i].status = "completed"]
                     ELSE IF last'.status = "yes"
                     THEN [tasks EXCEPT ![i].status = "pending"]
                     ELSE tasks
               /\ UNCHANGED <<taskNextId, userVars, projectVars>>
      ]_vars

\* complete-task on a completed task, confirmed, has made the task pending
C26_Witness ==
    /\ last.op = "run complete-task" /\ last.status = "yes"
    /\ last.report = "Task marked as pending"
    /\ \E i \in 1..Len(tasks) :
           tasks[i].task_id = last.id /\ tasks[i].status = "pending"

\* C27: after any sequence of the CLI's commands from empty registries the
\* links agree in both directions: every project's owner is a user whose
\* projects list holds the project, every id in a user's projects list is a
\* project of that user, every task's project is a project whose tasks list
\* holds the task, every id in a project's tasks list is a task of that
\* project, and every assigned user id is a user.
C27_LinksConsistent ==
    /\ \A j \in 1..Len(projects) :
           \E i \in 1..Len(users) :
               /\ users[i].user_id = projects[j].user_id
               /\ InList(users[i].projects, projects[j].project_id)
    /\ \A i \in 1..Len(users) :
           \A k \in 1..Len(users[i].projects) :
               \E j \in 1..Len(projects) :
                   /\ projects[j].project_id = users[i].projects[k]
                   /\ projects[j].user_id = users[i].user_id
    /\ \A t \in 1..Len(tasks) :
           \E j \in 1..Len(projects) :
               /\ projects[j].project_id = tasks[t].project_id
               /\ InList(projects[j].tasks, tasks[t].task_id)
    /\ \A j \in 1..Len(projects) :
           \A k \in 1..Len(projects[j].tasks) :
               \E t \in 1..Len(tasks) :
                   /\ tasks[t].task_id = projects[j].tasks[k]
                   /\ tasks[t].project_id = projects[j].project_id
    /\ \A t \in 1..Len(tasks) :
           \A k \in 1..Len(tasks[t].assigned_users) :
               \E i \in 1..Len(users) :
                   users[i].user_id = tasks[t].assigned_users[k]

\* assign-task has assigned the second user to a task of the second user's
\* project, after the task was created with the first user assigned
C27_Witness ==
    /\ last.op = "run assign-task" /\ last.report = "Task assigned"
    /\ Len(users) = 2 /\ Len(projects) = 1 /\ Len(tasks) = 1
    /\ projects[1].user_id = 2 /\ users[2].projects = <<1>>
    /\ projects[1].tasks = <<1>> /\ tasks[1].assigned_users = <<1, 2>>

(***************************************************************************)
(* SpecStart: one run of the program after the other on a command that     *)
(* only reads: main() makes the CLI, whose constructor loads the three     *)
(* files into the registries of the new process, and run() calls the       *)
(* handler and then save_data().  The three files start with any content.  *)
(***************************************************************************)
\* the registries of a process that has just started
FreshRegs ==
    [users |-> <<>>, userNextId |-> 1, projects |-> <<>>, projectNextId |-> 1,
     tasks |-> <<>>, taskNextId |-> 1]

ReadOnlyCommands ==
    {"list-users", "list-projects", "list-tasks", "show-user", "show-project",
     "search"}

\* list_users, show_user, list_projects, show_project, list_tasks, search:
\* they print what they find and assign nothing
CliReadOnlyOn(w, command) == Handled(w, command, 0, "")

\* main() on the command line of a command that only reads; the call's record
\* keeps load_data's message in report and save_data's in saved
MainReadOnly(command) ==
    \E ld \in {CliLoadDataOn(FreshRegs, Files)} :
      \E h \in {CliReadOnlyOn(ld.w, command)} :
        \E s \in {CliSaveDataOn(h.w, [Files EXCEPT !.dir = ld.dir], Healthy)} :
            /\ SetRegs(h.w)
            /\ SetFiles(s.fs)
            /\ last' = [Call("main", "") EXCEPT !.file = command,
                                                !.report = ld.report,
                                                !.saved = s.saved, !.n = 1]
            /\ UNCHANGED envVars

InitStart ==
    /\ users = <<>> /\ userNextId = 1
    /\ projects = <<>> /\ projectNextId = 1
    /\ tasks = <<>> /\ taskNextId = 1
    /\ kind = "all"
    /\ dataDir = "present"
    /\ usersFile \in UserFiles \cup {FileAbsent, FileMalformed}
    /\ projectsFile \in ProjectFiles \cup {FileAbsent, FileMalformed}
    /\ tasksFile \in TaskFiles \cup {FileAbsent, FileMalformed}
    /\ now = 5
    /\ pc = {}
    /\ last = Call("", "")

NextStart == (\E command \in ReadOnlyCommands : MainReadOnly(command)) /\ UNCHANGED pc

SpecStart == InitStart /\ [][NextStart]_vars

\* C29: a run of the program on a command that only reads leaves the records
\* stored in users.json, projects.json and tasks.json equal to what they were
\* before the run, whatever the three files held (an absent file and a file
\* that does not parse hold no records).
C29_ReadOnlyRunKeepsFiles ==
    [][last'.op = "main" =>
           /\ FileLoadData(usersFile') = FileLoadData(usersFile)
           /\ FileLoadData(projectsFile') = FileLoadData(projectsFile)
           /\ FileLoadData(tasksFile') = FileLoadData(tasksFile)
      ]_vars

\* C30: at start-up each registry is loaded from its own file whatever
\* happened to the files before it, so the save after the command writes to
\* a file whose records all load a list that is not shorter than the one the
\* file held.
C30_RegistriesLoadIndependently ==
    [][last'.op = "main" =>
           /\ projects' = ProjectLoadRecords(FileLoadData(projectsFile)).reg
           /\ tasks' = TaskLoadRecords(FileLoadData(tasksFile)).reg
           /\ ProjectLoadRecords(FileLoadData(projectsFile)).err = "" =>
                  Len(FileLoadData(projectsFile')) >=
                      Len(FileLoadData(projectsFile))
           /\ TaskLoadRecords(FileLoadData(tasksFile)).err = "" =>
                  Len(FileLoadData(tasksFile')) >= Len(FileLoadData(tasksFile))
      ]_vars

====
